---- MODULE Spec2Model ----
(***************************************************************************)
(* Model of the RAG backend's ingestion pipeline                           *)
(* (backend/ingestion/pipeline.py) together with the relational session    *)
(* and the vector store it drives.  Two ingestion runs, each with its own  *)
(* database session, work on one directory; a run is one call of           *)
(* run_ingest -> IngestionPipeline.ingest_directory.  The two services the  *)
(* pipeline depends on are modelled on their own: EmbedSpec is one call of *)
(* EmbeddingService.embed against a server that may fail on any request,   *)
(* and StoreSpec is VectorStoreClient used by two workers on one store.     *)
(* RetrieveSpec is one call of RetrievalService.retrieve                     *)
(* (backend/retrieval/service.py), and FunctionSpec is one call of chunk_text *)
(* or of is_duplicate_embedding on arguments drawn from small sets.          *)
(* DocumentSpec is the pipeline with a single run over text files chosen to  *)
(* exercise the chunk loop, the batches and the similarity check.            *)
(***************************************************************************)
EXTENDS Integers, Sequences, FiniteSets, TLC

\* ------------------------------------------------------------------ bounds
NumFiles == 2          \* files in the ingested directory
MaxFaults == 1         \* failures of the external services in one behaviour
MaxBatch == 2          \* batch_size is 1 or MaxBatch
ChunkSize == 2         \* settings.chunk_size, scaled down
ChunkOverlap == 0      \* settings.chunk_overlap, scaled down

Runs == {"r1", "r2"}
Tenants == {"t1", "t2"}

\* ------------------------------------------------------------ the directory
\* A file is its suffix, the MIME type _detect_mime reports for it and its
\* bytes; the bytes of a text file are written as the token ids of its text.
TextA == [suffix |-> ".txt", mime |-> "text/plain", bytes |-> <<1, 2, 1, 2>>]
TextB == [suffix |-> ".md", mime |-> "application/octet-stream", bytes |-> <<1, 2, 3>>]
Binary == [suffix |-> ".bin", mime |-> "application/octet-stream", bytes |-> <<0>>]
BadPdf == [suffix |-> ".pdf", mime |-> "application/pdf", bytes |-> <<9>>]
FileTypes == {TextA, TextB, Binary, BadPdf}

\* the sorted listings of NumFiles files (rglob, sorted, files only)
Directories == [1..NumFiles -> FileTypes]

PathKinds == {"ok", "not_a_directory", "outside_root"}

\* ------------------------------------------------------------- exceptions
EmbeddingErrors == {"EmbeddingRetryableError", "EmbeddingTimeoutError", "EmbeddingServiceError"}
VectorErrors == {"VectorStoreError", "VectorCollectionError", "VectorSearchError", "VectorUpsertError"}

\* isinstance(exc, EmbeddingServiceError): the class and its two subclasses
IsEmbeddingServiceError(cls) == cls \in EmbeddingErrors

\* isinstance(exc, VectorStoreError)
IsVectorStoreError(cls) == cls \in VectorErrors

\* what embed can raise: the service's own errors, and errors that are not
\* EmbeddingServiceError (response.json() on a malformed body raises ValueError,
\* the test double raises RuntimeError)
EmbedRaises == EmbeddingErrors \cup {"RuntimeError"}

\* ------------------------------------------------------------------ hashing
\* sha256_digest: a collision-free digest of the content
sha256_digest(content) == <<"sha256", content>>

\* ------------------------------------------------------------------ chunker
Max(a, b) == IF a >= b THEN a ELSE b
Min(a, b) == IF a <= b THEN a ELSE b

\* mutant: the overlap is added to the step
ChunkStepPlusOverlap(chunk_size, chunk_overlap) == Max(1, chunk_size + chunk_overlap)

\* _chunk_tokens: the windows tokens[start : start + chunk_size] for
\* start in range(0, len(tokens), step)
ChunkStep(chunk_size, chunk_overlap) == Max(1, chunk_size - chunk_overlap)

RECURSIVE ChunkTokensFrom(_, _, _, _)
ChunkTokensFrom(tokens, start, chunk_size, step) ==
    IF start >= Len(tokens) THEN <<>>
    ELSE <<SubSeq(tokens, start + 1, Min(Len(tokens), start + chunk_size))>>
         \o ChunkTokensFrom(tokens, start + step, chunk_size, step)

_chunk_tokens(tokens, chunk_size, chunk_overlap) ==
    ChunkTokensFrom(tokens, 0, chunk_size, ChunkStep(chunk_size, chunk_overlap))

\* chunk_text: one Chunk per non-empty window, index = the window's position
chunk_text(tokens, chunk_size, chunk_overlap) ==
    IF tokens = <<>> THEN <<>>
    ELSE LET ws == _chunk_tokens(tokens, chunk_size, chunk_overlap)
         IN  [i \in 1..Len(ws) |->
                 [text |-> ws[i], token_count |-> Len(ws[i]),
                  sha256 |-> sha256_digest(ws[i]), index |-> i - 1]]

\* ------------------------------------------------------ text extraction
\* PdfReader cannot parse these bytes and raises
PdfUnreadable(bytes) == bytes = <<9>>

\* mutant: the final "return None" is lost and every other file is decoded
ExtractTextNoUnsupported(f) ==
    IF f.suffix = ".pdf" \/ f.mime = "application/pdf"
    THEN (IF PdfUnreadable(f.bytes) THEN "raise" ELSE "text")
    ELSE "text"

\* _extract_text: "raise" when PdfReader raises, "none" for an unsupported
\* type, otherwise "text"
_extract_text(f) ==
    IF f.suffix = ".pdf" \/ f.mime = "application/pdf"
    THEN (IF PdfUnreadable(f.bytes) THEN "raise" ELSE "text")
    ELSE IF f.mime \in {"text/plain", "text/markdown"} THEN "text"
    ELSE IF f.suffix \in {".md", ".txt", ".log"} THEN "text"
    ELSE "none"

\* --------------------------------------------------- embeddings, similarity
RECURSIVE SumSeq(_)
SumSeq(s) == IF s = <<>> THEN 0 ELSE Head(s) + SumSeq(Tail(s))

\* the vector the embedding service returns for a text (the test double's
\* embedding: length, checksum, length + checksum)
Embedding(text) ==
    LET length == Len(text)
        checksum == SumSeq(text) % 1000
    IN  <<length, checksum, length + checksum>>

Dot(v1, v2) == SumSeq([i \in 1..Min(Len(v1), Len(v2)) |-> v1[i] * v2[i]])

\* cosine_similarity(vec1, vec2) >= threshold, in integers, the threshold
\* 0.995 written as 199 / 200; a zero norm gives similarity 0.0
ThresholdNum == 199
ThresholdDen == 200

\* mutant: a zero norm is not told apart
CosineNoZeroCheck(vec1, vec2) ==
    LET dot == Dot(vec1, vec2)
        n1 == Dot(vec1, vec1)
        n2 == Dot(vec2, vec2)
    IN  dot >= 0 /\ dot * dot * ThresholdDen * ThresholdDen
                      >= ThresholdNum * ThresholdNum * n1 * n2

\* cosine_similarity(vec1, vec2) >= threshold
CosineAtLeast(vec1, vec2) ==
    LET dot == Dot(vec1, vec2)
        n1 == Dot(vec1, vec1)
        n2 == Dot(vec2, vec2)
    IN  IF n1 = 0 \/ n2 = 0 THEN FALSE
        ELSE dot > 0 /\ dot * dot * ThresholdDen * ThresholdDen
                          >= ThresholdNum * ThresholdNum * n1 * n2

\* is_duplicate_embedding: any stored embedding at or above the threshold
is_duplicate_embedding(existing, candidate) ==
    \E e \in existing : CosineAtLeast(e, candidate)

\* ------------------------------------------------------------------- state
VARIABLES
    files,      \* the directory: the sorted listing of its files
    pc,         \* where each run's ingest call stands
    args,       \* the arguments each run was started with
    run,        \* the IngestionRun object each pipeline holds
    dbRun,      \* the committed ingestion_runs row of each run
    events,     \* the IngestionEvent records each run has recorded, in order
    durable,    \* how many of a run's events have been committed
    result,     \* the IngestionResult of each run
    idx,        \* the position of each run in its file loop
    work,       \* the locals of _process_file for the file being processed
    docs,       \* the documents table, with each session's flushed rows
    chunkRows,  \* the committed document_chunks rows
    vectors,    \* the vector store: the records of each tenant's collection
    raised,     \* the exception ingest_directory raised to its caller
    calls,      \* the calls each run made to the external services
    broken,     \* the session's transaction was rolled back by a failed flush
    faults,     \* failures of the external services so far
    prior,      \* history: the runs that had completed when a run was created
    \* EmbeddingService.embed
    texts,            \* the argument of embed
    fallback_models,  \* the service's configured fallback models
    epc,              \* where the embed call stands
    model_index,      \* the position of the for loop in models_to_try
    attempt,          \* the attempt number of the retry policy
    last_error,       \* embed's local last_error
    requests,         \* history: the requests posted, with what each raised
    response,         \* the server's answer to the latest request
    embeddings,       \* what embed returned
    embed_exc,        \* what embed raised
    primary_503,      \* history: the primary was requested and always answered 503
    \* VectorStoreClient and the vector store behind it
    collections,      \* the store: the collections by name, each with its points
    wpc,              \* where each worker's call of the client stands
    wcall,            \* the call each worker is in: method, arguments, attempt
    wsent,            \* history: the requests the worker's call has sent
    wout,             \* how each worker's latest call ended
    ncalls,           \* calls made so far
    sfaults,          \* failures of the store so far
    ensured,          \* history: the tenants ensure_collection returned for
    \* RetrievalService.retrieve
    _settings,        \* the retrieval settings the service was built with
    rpc,              \* where the retrieve call stands
    retrieve_args,    \* the arguments of retrieve: top_k and filters
    request,          \* retrieve's local request, the RetrievalRequest
    query_embeddings, \* how embed([query]) ended: what it returned or raised
    searches,         \* history: the search_with_filters calls made
    results,          \* what the vector store returned
    normalized_scores,\* retrieve's local normalized_scores
    retrieved,        \* the RetrievalResponse retrieve returned
    retrieve_exc,     \* what retrieve raised
    \* chunk_text and is_duplicate_embedding called on their own
    fcall,            \* the function called and its arguments
    freturn           \* what the function returned

\* the pipeline's variables
runVars == <<files, pc, args, run, dbRun, events, durable, result, idx, work,
             docs, chunkRows, vectors, raised, calls, broken, faults, prior>>

\* the variables of the embed call
embedVars == <<texts, fallback_models, epc, model_index, attempt, last_error,
               requests, response, embeddings, embed_exc, primary_503>>

\* the variables of the services modelled on their own
\* the variables of the store and the workers using it
storeVars == <<collections, wpc, wcall, wsent, wout, ncalls, sfaults, ensured>>

\* the variables of the retrieve call
retrVars == <<_settings, rpc, retrieve_args, request, query_embeddings, searches,
              results, normalized_scores, retrieved, retrieve_exc>>

\* the variables of a call of one of the pure functions
fnVars == <<fcall, freturn>>

svcVars == <<embedVars, storeVars, retrVars, fnVars>>

vars == <<runVars, svcVars>>

NoArgs == [tenant_id |-> "none", path |-> "none", batch_size |-> 0]
NoRun == [status |-> "none", started |-> FALSE, finished |-> FALSE,
          total_documents |-> 0, processed_documents |-> 0]
\* IngestionResult()
NewResult == [processed_documents |-> 0, skipped_documents |-> 0,
              failed_documents |-> 0, processed_chunks |-> 0, skipped_chunks |-> 0]
NoDoc == <<"none", 0>>
NoWork == [doc |-> NoDoc, chunks |-> <<>>, ci |-> 1, seen |-> {}, batch |-> <<>>,
           payloads |-> <<>>, models |-> <<>>]
NoCalls == [health |-> 0, ensure |-> 0, embed |-> 0, search |-> 0, upsert |-> 0]

\* no run has been created
NoRuns ==
    /\ pc = [r \in Runs |-> "new"]
    /\ args = [r \in Runs |-> NoArgs]
    /\ run = [r \in Runs |-> NoRun]
    /\ dbRun = [r \in Runs |-> NoRun]
    /\ events = [r \in Runs |-> <<>>]
    /\ durable = [r \in Runs |-> 0]
    /\ result = [r \in Runs |-> NewResult]
    /\ idx = [r \in Runs |-> 0]
    /\ work = [r \in Runs |-> NoWork]
    /\ docs = {}
    /\ chunkRows = {}
    /\ vectors = [t \in Tenants |-> {}]
    /\ raised = [r \in Runs |-> "none"]
    /\ calls = [r \in Runs |-> NoCalls]
    /\ broken = [r \in Runs |-> FALSE]
    /\ faults = 0
    /\ prior = [r \in Runs |-> {}]

\* no embed call is under way
NoError == [cls |-> "none", model |-> "none"]
NoResponse == [kind |-> "none", status |-> 0, body |-> "none"]
NoException == [cls |-> "none", models |-> <<>>, cause |-> NoError]

EmbedIdle ==
    /\ texts = <<>>
    /\ fallback_models = <<>>
    /\ epc = "idle"
    /\ model_index = 0
    /\ attempt = 0
    /\ last_error = NoError
    /\ requests = <<>>
    /\ response = NoResponse
    /\ embeddings = <<>>
    /\ embed_exc = NoException
    /\ primary_503 = FALSE

\* no worker has called the vector store client
Workers == {"w1", "w2"}
NoCall == [op |-> "none", tenant_id |-> <<>>, points |-> <<>>, embedding |-> <<>>,
           attempt |-> 0, again |-> FALSE]
NoOutcome == [exc |-> "none", value |-> {}]

StoreIdle ==
    /\ collections = [n \in {} |-> {}]
    /\ wpc = [w \in Workers |-> "idle"]
    /\ wcall = [w \in Workers |-> NoCall]
    /\ wsent = [w \in Workers |-> <<>>]
    /\ wout = [w \in Workers |-> NoOutcome]
    /\ ncalls = 0
    /\ sfaults = 0
    /\ ensured = {}

\* no retrieve call is under way.  Python's None is the empty tuple, and a
\* value x that may be None is <<x>> when it is there
None == <<>>
Some(x) == <<x>>

\* Settings: retrieval_top_k_default (scaled down), retrieval_score_floor as
\* the fraction 7 / 20, retrieval_score_ceiling in millionths
TopKDefault == 2
retrieval_score_floor == <<7, 20>>
retrieval_score_ceiling == 950000
Settings(top_k_default, score_floor, diagnostics) ==
    [retrieval_top_k_default |-> top_k_default,
     retrieval_score_floor |-> score_floor,
     retrieval_score_ceiling |-> retrieval_score_ceiling,
     retrieval_diagnostics |-> diagnostics]

\* the empty dict
EmptyDict == [k \in {} |-> 0]

RetrieveIdle ==
    /\ rpc = "idle"
    /\ retrieve_args = None
    /\ request = None
    /\ query_embeddings = None
    /\ searches = <<>>
    /\ results = <<>>
    /\ normalized_scores = <<>>
    /\ retrieved = None
    /\ retrieve_exc = "none"

\* a call of chunk_text or is_duplicate_embedding, its arguments to be filled in
NoFunction == [fn |-> "none", tokens |-> <<>>, chunk_size |-> 0, chunk_overlap |-> 0,
               existing_embeddings |-> {}, candidate |-> <<>>]
NotReturned == [returned |-> FALSE, chunks |-> <<>>, duplicate |-> FALSE]

\* neither chunk_text nor is_duplicate_embedding has been called
FunctionIdle ==
    /\ fcall = None
    /\ freturn = None

\* the services modelled on their own are idle: no retrieval service has
\* been built
ServicesIdle ==
    /\ _settings = None
    /\ RetrieveIdle
    /\ FunctionIdle

Init ==
    /\ files \in Directories
    /\ NoRuns
    /\ EmbedIdle
    /\ StoreIdle
    /\ ServicesIdle

\* _record_event: session.add of one IngestionEvent
Event(type, file, reason, n) == [type |-> type, file |-> file, reason |-> reason, n |-> n]

\* session.commit() of run r's session, on the documents table
CommitDocs(ds, r) ==
    {IF d.owner = r THEN [d EXCEPT !.dstatus = d.status] ELSE d : d \in ds}

\* the rollback a failed flush forces: the session's uncommitted rows vanish
RollbackDocs(ds, r) == {d \in ds : ~(d.owner = r /\ d.dstatus = "none")}

\* where the file loop goes after file i
AfterFile(i) == IF i >= Len(files) THEN "finish" ELSE "check"

\* ------------------------------------------------------------ run_ingest
\* the tenants a run may be started for; the tenant names are interchangeable,
\* so the first run's is fixed
TenantChoices(r) == IF r = "r1" THEN {"t1"} ELSE Tenants

\* run_ingest: the IngestionRun row is created pending and committed, then
\* ingest_directory is called with the caller's arguments
CreateRun(r) ==
    /\ pc[r] = "new"
    /\ \E t \in TenantChoices(r), p \in PathKinds, b \in {1, MaxBatch} :
          args' = [args EXCEPT ![r] = [tenant_id |-> t, path |-> p, batch_size |-> b]]
    /\ run' = [run EXCEPT ![r] = [NoRun EXCEPT !.status = "pending"]]
    /\ dbRun' = [dbRun EXCEPT ![r] = [NoRun EXCEPT !.status = "pending"]]
    /\ pc' = [pc EXCEPT ![r] = "validate"]
    /\ prior' = [prior EXCEPT ![r] = {q \in Runs : pc[q] = "done"}]
    /\ UNCHANGED <<files, events, durable, result, idx, work, docs, chunkRows,
                   vectors, raised, calls, broken, faults>>
    /\ UNCHANGED svcVars

\* ------------------------------------------------------ ingest_directory
\* mutant: the containment check against the root is lost
ValidatePathNoRoot(path) ==
    IF path = "not_a_directory" THEN "ValueError" ELSE "none"

\* _validate_path: ValueError unless the path is a directory that is the
\* root or below it
_validate_path(path) ==
    IF path = "not_a_directory" THEN "ValueError"
    ELSE IF path = "outside_root" THEN "ValueError"
    ELSE "none"

ValidatePath(r) ==
    /\ pc[r] = "validate"
    /\ LET exc == _validate_path(args[r].path)
       IN  IF exc # "none"
           THEN /\ raised' = [raised EXCEPT ![r] = exc]
                /\ pc' = [pc EXCEPT ![r] = "raised"]
           ELSE /\ pc' = [pc EXCEPT ![r] = "ensure"]
                /\ UNCHANGED raised
    /\ UNCHANGED <<files, args, run, dbRun, events, durable, result, idx, work,
                   docs, chunkRows, vectors, calls, broken, faults, prior>>
    /\ UNCHANGED svcVars

\* _ensure_services: the store's healthcheck, the embedding service's
\* healthcheck, ensure_collection; the first that raises ends the call.  It
\* runs before the try block, so nothing handles what it raises.
EnsureOutcomes ==
    {[at |-> 0, exc |-> "none"], [at |-> 1, exc |-> "VectorStoreError"],
     [at |-> 3, exc |-> "VectorCollectionError"]}
    \cup {[at |-> 2, exc |-> e] : e \in EmbeddingErrors}

_ensure_services(r, o) ==
    /\ o.exc # "none" => faults < MaxFaults
    /\ faults' = IF o.exc # "none" THEN faults + 1 ELSE faults
    /\ calls' = [calls EXCEPT ![r].health = IF o.at = 1 THEN 1 ELSE 2,
                              ![r].ensure = IF o.at \in {0, 3} THEN 1 ELSE 0]
    /\ IF o.exc # "none"
       THEN /\ raised' = [raised EXCEPT ![r] = o.exc]
            /\ pc' = [pc EXCEPT ![r] = "raised"]
       ELSE /\ pc' = [pc EXCEPT ![r] = "start"]
            /\ UNCHANGED raised

EnsureServices(r) ==
    /\ pc[r] = "ensure"
    /\ \E o \in EnsureOutcomes : _ensure_services(r, o)
    /\ UNCHANGED <<files, args, run, dbRun, events, durable, result, idx, work,
                   docs, chunkRows, vectors, broken, prior>>
    /\ UNCHANGED svcVars

\* lines 77-85: status running, start time, run_started, commit; the files
\* are enumerated, total_documents set, commit
StartRun(r) ==
    /\ pc[r] = "start"
    /\ LET started == [run[r] EXCEPT !.status = "running", !.started = TRUE,
                                     !.total_documents = Len(files)]
       IN  /\ run' = [run EXCEPT ![r] = started]
           /\ dbRun' = [dbRun EXCEPT ![r] = started]
    /\ events' = [events EXCEPT ![r] = Append(@, Event("run_started", 0, "", 0))]
    /\ durable' = [durable EXCEPT ![r] = Len(events'[r])]
    /\ docs' = CommitDocs(docs, r)
    /\ idx' = [idx EXCEPT ![r] = 1]
    /\ pc' = [pc EXCEPT ![r] = AfterFile(0)]
    /\ UNCHANGED <<files, args, result, work, chunkRows, vectors, raised, calls,
                   broken, faults, prior>>
    /\ UNCHANGED svcVars

\* mutant: the run is completed without a run_completed event
FinishRunNoEvent(r) ==
    /\ pc[r] = "finish"
    /\ IF broken[r]
       THEN /\ run' = [run EXCEPT ![r].status = "failed", ![r].finished = TRUE]
            /\ raised' = [raised EXCEPT ![r] = "PendingRollbackError"]
            /\ pc' = [pc EXCEPT ![r] = "raised"]
            /\ UNCHANGED <<dbRun, durable, docs>>
       ELSE /\ run' = [run EXCEPT ![r].status = "completed", ![r].finished = TRUE]
            /\ dbRun' = [dbRun EXCEPT ![r] = run'[r]]
            /\ durable' = [durable EXCEPT ![r] = Len(events[r])]
            /\ docs' = CommitDocs(docs, r)
            /\ pc' = [pc EXCEPT ![r] = "done"]
            /\ UNCHANGED raised
    /\ UNCHANGED <<files, args, result, idx, work, chunkRows, vectors, calls,
                   broken, faults, prior, events>>
    /\ UNCHANGED svcVars

\* lines 132-140: status completed, finish time, run_completed, commit.  On a
\* session whose transaction a failed flush rolled back the commit raises:
\* the handler of lines 141-147 sets failed and its own commit raises too.
FinishRun(r) ==
    /\ pc[r] = "finish"
    /\ events' = [events EXCEPT ![r] =
           Append(@, Event("run_completed", 0, "", result[r].processed_documents))]
    /\ IF broken[r]
       THEN /\ run' = [run EXCEPT ![r].status = "failed", ![r].finished = TRUE]
            /\ raised' = [raised EXCEPT ![r] = "PendingRollbackError"]
            /\ pc' = [pc EXCEPT ![r] = "raised"]
            /\ UNCHANGED <<dbRun, durable, docs>>
       ELSE /\ run' = [run EXCEPT ![r].status = "completed", ![r].finished = TRUE]
            /\ dbRun' = [dbRun EXCEPT ![r] = run'[r]]
            /\ durable' = [durable EXCEPT ![r] = Len(events'[r])]
            /\ docs' = CommitDocs(docs, r)
            /\ pc' = [pc EXCEPT ![r] = "done"]
            /\ UNCHANGED raised
    /\ UNCHANGED <<files, args, result, idx, work, chunkRows, vectors, calls,
                   broken, faults, prior>>
    /\ UNCHANGED svcVars

\* ------------------------------------------------- the file loop's handlers
\* mutant: the catch-all clause re-raises like the other two
FileLoopHandlerAllFatal(cls) == "reraise"

\* lines 102-131: EmbeddingRetryableError and EmbeddingServiceError are
\* recorded and re-raised; every other exception is counted and swallowed
FileLoopHandler(cls) ==
    IF IsEmbeddingServiceError(cls) THEN "reraise" ELSE "count_failed"

\* lines 122-131: failed_documents += 1, one error event, on to the next file
FileFailed(r, cls, res) ==
    /\ result' = [result EXCEPT ![r] = [res EXCEPT !.failed_documents = @ + 1]]
    /\ events' = [events EXCEPT ![r] = Append(@, Event("error", idx[r], cls, 0))]
    /\ idx' = [idx EXCEPT ![r] = @ + 1]
    /\ pc' = [pc EXCEPT ![r] = AfterFile(idx[r])]
    /\ work' = [work EXCEPT ![r] = NoWork]
    /\ UNCHANGED <<run, dbRun, durable, raised>>

\* mutant: the failure handler deletes the Documents of the run
RunFatalDropsDocuments(r, cls, res) ==
    /\ result' = [result EXCEPT ![r] = res]
    /\ events' = [events EXCEPT ![r] =
           Append(Append(@, Event("error", idx[r], cls, 0)), Event("run_failed", 0, "", 0))]
    /\ run' = [run EXCEPT ![r].status = "failed", ![r].finished = TRUE]
    /\ dbRun' = [dbRun EXCEPT ![r] = run'[r]]
    /\ durable' = [durable EXCEPT ![r] = Len(events'[r])]
    /\ docs' = {d \in docs : d.owner # r}
    /\ raised' = [raised EXCEPT ![r] = cls]
    /\ pc' = [pc EXCEPT ![r] = "raised"]
    /\ work' = [work EXCEPT ![r] = NoWork]
    /\ UNCHANGED idx

\* mutant: the final raise of the failure handler is lost and the loop goes on
RunFatalNoRaise(r, cls, res) ==
    /\ result' = [result EXCEPT ![r] = res]
    /\ events' = [events EXCEPT ![r] =
           Append(Append(@, Event("error", idx[r], cls, 0)), Event("run_failed", 0, "", 0))]
    /\ run' = [run EXCEPT ![r].status = "failed", ![r].finished = TRUE]
    /\ dbRun' = [dbRun EXCEPT ![r] = run'[r]]
    /\ durable' = [durable EXCEPT ![r] = Len(events'[r])]
    /\ docs' = CommitDocs(docs, r)
    /\ idx' = [idx EXCEPT ![r] = @ + 1]
    /\ pc' = [pc EXCEPT ![r] = AfterFile(idx[r])]
    /\ work' = [work EXCEPT ![r] = NoWork]
    /\ UNCHANGED raised

\* lines 102-121 and 141-147: one error event, then status failed, finish
\* time, commit, run_failed, commit, and the error goes to the caller
RunFatal(r, cls, res) ==
    /\ result' = [result EXCEPT ![r] = res]
    /\ events' = [events EXCEPT ![r] =
           Append(Append(@, Event("error", idx[r], cls, 0)), Event("run_failed", 0, "", 0))]
    /\ run' = [run EXCEPT ![r].status = "failed", ![r].finished = TRUE]
    /\ dbRun' = [dbRun EXCEPT ![r] = run'[r]]
    /\ durable' = [durable EXCEPT ![r] = Len(events'[r])]
    /\ docs' = CommitDocs(docs, r)
    /\ raised' = [raised EXCEPT ![r] = cls]
    /\ pc' = [pc EXCEPT ![r] = "raised"]
    /\ work' = [work EXCEPT ![r] = NoWork]
    /\ UNCHANGED idx

\* an exception of class cls leaves _process_file
RaiseInFile(r, cls, res) ==
    IF FileLoopHandler(cls) = "reraise"
    THEN RunFatal(r, cls, res)
    ELSE FileFailed(r, cls, res) /\ UNCHANGED docs

\* mutant: a skipped file is recorded but not counted
FileSkippedNotCounted(r, reason) ==
    /\ events' = [events EXCEPT ![r] =
           Append(@, Event("document_skipped", idx[r], reason, 0))]
    /\ idx' = [idx EXCEPT ![r] = @ + 1]
    /\ pc' = [pc EXCEPT ![r] = AfterFile(idx[r])]
    /\ UNCHANGED <<run, dbRun, durable, raised, work, docs, result>>

\* lines 98-101 after _process_file returned False: the file was skipped
FileSkipped(r, reason) ==
    /\ result' = [result EXCEPT ![r].skipped_documents = @ + 1]
    /\ events' = [events EXCEPT ![r] =
           Append(@, Event("document_skipped", idx[r], reason, 0))]
    /\ idx' = [idx EXCEPT ![r] = @ + 1]
    /\ pc' = [pc EXCEPT ![r] = AfterFile(idx[r])]
    /\ UNCHANGED <<run, dbRun, durable, raised, work, docs>>

\* ------------------------------------------------------------ _process_file
\* rows a session's query sees: committed rows and the session's own flushes
Visible(d, r) == d.dstatus # "none" \/ d.owner = r

\* mutant: the query loses its tenant condition
FilterExistingAnyTenant(r, tenant_id, shas) ==
    {d.sha256 : d \in {x \in docs : Visible(x, r) /\ x.sha256 \in shas}}

\* mutant: the early return for an empty list is taken for every list
FilterExistingNothing(r, tenant_id, shas) == {}

\* filter_existing_documents: the hashes among shas that the tenant already has
filter_existing_documents(r, tenant_id, shas) ==
    {d.sha256 : d \in {x \in docs : /\ Visible(x, r)
                                     /\ x.tenant_id = tenant_id
                                     /\ x.sha256 \in shas}}

\* lines 171-190: detect the type, read, extract, content-level dedup
CheckFile(r) ==
    /\ pc[r] = "check"
    /\ LET f == files[idx[r]]
           text == _extract_text(f)
           doc_sha == sha256_digest(f.bytes)
       IN  IF text = "raise"
           THEN RaiseInFile(r, "PdfReadError", result[r])
           ELSE IF text = "none"
           THEN FileSkipped(r, "unsupported_mime")
           ELSE IF broken[r]
           THEN RaiseInFile(r, "PendingRollbackError", result[r])
           ELSE IF doc_sha \in filter_existing_documents(r, args[r].tenant_id, {doc_sha})
           THEN FileSkipped(r, "duplicate")
           ELSE /\ pc' = [pc EXCEPT ![r] = "insert"]
                /\ UNCHANGED <<run, dbRun, events, durable, result, idx, work,
                               raised, docs>>
    /\ UNCHANGED <<files, args, chunkRows, vectors, calls, broken, faults, prior>>
    /\ UNCHANGED svcVars

\* mutant: the index is not unique
IndexNotUnique(ds, r, tenant_id, sha) == "ok"

\* ix_documents_tenant_sha, the unique index on (tenant_id, sha256), when
\* session r flushes a row with that key: the insert waits while another
\* session holds an uncommitted row with the key, and violates the index when
\* a committed row (or one of its own) has it
ix_documents_tenant_sha(ds, r, tenant_id, sha) ==
    LET same == {d \in ds : d.tenant_id = tenant_id /\ d.sha256 = sha}
    IN  IF \E d \in same : d.dstatus = "none" /\ d.owner # r THEN "wait"
        ELSE IF same # {} THEN "violation"
        ELSE "ok"

\* mutant: the hashes of the chunks gone through are not remembered
RECURSIVE ChunkLoopNoSeen(_, _, _, _)
ChunkLoopNoSeen(w, batch_size, file, acc) ==
    IF w.ci > Len(w.chunks)
    THEN [work |-> w, evs |-> acc.evs, skipped |-> acc.skipped,
          next |-> IF w.batch # <<>> THEN "batch" ELSE "persist"]
    ELSE LET chunk == w.chunks[w.ci]
         IN  IF chunk.sha256 \in w.seen
             THEN ChunkLoopNoSeen([w EXCEPT !.ci = @ + 1], batch_size, file,
                            [evs |-> Append(acc.evs,
                                 Event("chunk_skipped_duplicate", file, "hash_duplicate", chunk.index)),
                             skipped |-> acc.skipped + 1])
             ELSE LET w2 == [w EXCEPT !.ci = @ + 1, !.batch = Append(@, chunk)]
                  IN  IF Len(w2.batch) >= batch_size
                      THEN [work |-> w2, evs |-> acc.evs, skipped |-> acc.skipped,
                            next |-> "batch"]
                      ELSE ChunkLoopNoSeen(w2, batch_size, file, acc)

\* mutant: the batch is flushed only once it is longer than batch_size
RECURSIVE ChunkLoopLateFlush(_, _, _, _)
ChunkLoopLateFlush(w, batch_size, file, acc) ==
    IF w.ci > Len(w.chunks)
    THEN [work |-> w, evs |-> acc.evs, skipped |-> acc.skipped,
          next |-> IF w.batch # <<>> THEN "batch" ELSE "persist"]
    ELSE LET chunk == w.chunks[w.ci]
         IN  IF chunk.sha256 \in w.seen
             THEN ChunkLoopLateFlush([w EXCEPT !.ci = @ + 1], batch_size, file,
                            [evs |-> Append(acc.evs,
                                 Event("chunk_skipped_duplicate", file, "hash_duplicate", chunk.index)),
                             skipped |-> acc.skipped + 1])
             ELSE LET w2 == [w EXCEPT !.ci = @ + 1, !.seen = @ \cup {chunk.sha256},
                                      !.batch = Append(@, chunk)]
                  IN  IF Len(w2.batch) > batch_size
                      THEN [work |-> w2, evs |-> acc.evs, skipped |-> acc.skipped,
                            next |-> "batch"]
                      ELSE ChunkLoopLateFlush(w2, batch_size, file, acc)

\* lines 238-256: the chunk loop up to its next flush_batch that has work.  A
\* chunk whose hash was seen in this document is counted and skipped.
RECURSIVE ChunkLoop(_, _, _, _)
ChunkLoop(w, batch_size, file, acc) ==
    IF w.ci > Len(w.chunks)
    THEN [work |-> w, evs |-> acc.evs, skipped |-> acc.skipped,
          next |-> IF w.batch # <<>> THEN "batch" ELSE "persist"]
    ELSE LET chunk == w.chunks[w.ci]
         IN  IF chunk.sha256 \in w.seen
             THEN ChunkLoop([w EXCEPT !.ci = @ + 1], batch_size, file,
                            [evs |-> Append(acc.evs,
                                 Event("chunk_skipped_duplicate", file, "hash_duplicate", chunk.index)),
                             skipped |-> acc.skipped + 1])
             ELSE LET w2 == [w EXCEPT !.ci = @ + 1, !.seen = @ \cup {chunk.sha256},
                                      !.batch = Append(@, chunk)]
                  IN  IF Len(w2.batch) >= batch_size
                      THEN [work |-> w2, evs |-> acc.evs, skipped |-> acc.skipped,
                            next |-> "batch"]
                      ELSE ChunkLoop(w2, batch_size, file, acc)

\* lines 192-256 up to the first embed: the Document is added and flushed,
\* document_started recorded, the text chunked and the chunk loop entered
InsertDocument(r) ==
    /\ pc[r] = "insert"
    /\ LET f == files[idx[r]]
           doc_sha == sha256_digest(f.bytes)
           ix == ix_documents_tenant_sha(docs, r, args[r].tenant_id, doc_sha)
           id == <<r, idx[r]>>
           document == [id |-> id, tenant_id |-> args[r].tenant_id, sha256 |-> doc_sha,
                        status |-> "processing", dstatus |-> "none", owner |-> r]
           w0 == [NoWork EXCEPT !.doc = id,
                                !.chunks = chunk_text(f.bytes, ChunkSize, ChunkOverlap)]
           lp == ChunkLoop(w0, args[r].batch_size, idx[r], [evs |-> <<>>, skipped |-> 0])
       IN  /\ ix # "wait"
           /\ IF ix = "violation"
              THEN /\ FileFailed(r, "IntegrityError", result[r])
                   /\ docs' = RollbackDocs(docs, r)
                   /\ broken' = [broken EXCEPT ![r] = TRUE]
              ELSE /\ docs' = docs \cup {document}
                   /\ events' = [events EXCEPT ![r] =
                          Append(@, Event("document_started", idx[r], "", 0)) \o lp.evs]
                   /\ result' = [result EXCEPT ![r].skipped_chunks = @ + lp.skipped]
                   /\ work' = [work EXCEPT ![r] = lp.work]
                   /\ pc' = [pc EXCEPT ![r] = lp.next]
                   /\ UNCHANGED <<run, dbRun, durable, raised, idx, broken>>
    /\ UNCHANGED <<files, args, chunkRows, vectors, calls, faults, prior>>
    /\ UNCHANGED svcVars

\* ----------------------------------------------------------- _process_batch
\* has_similar_embedding: an embedding of the tenant's collection is at or
\* above the duplicate threshold
has_similar_embedding(tenant_id, embedding) ==
    is_duplicate_embedding({v.embedding : v \in vectors[tenant_id]}, embedding)

\* mutant: every chunk of the batch is staged, similar to a stored one or not
RECURSIVE StageBatchNoCheck(_, _, _, _, _)
StageBatchNoCheck(tenant_id, batch, n, w, skipped) ==
    IF n = 0 \/ batch = <<>> THEN [work |-> w, skipped |-> skipped]
    ELSE LET chunk == Head(batch)
             embedding == Embedding(chunk.text)
         IN  StageBatchNoCheck(tenant_id, Tail(batch), n - 1,
                      [w EXCEPT
                         !.payloads = Append(@,
                             [id |-> chunk.sha256, embedding |-> embedding,
                              metadata |-> [tenant_id |-> tenant_id, document_id |-> w.doc,
                                            chunk_order |-> chunk.index,
                                            sha256 |-> chunk.sha256]]),
                         !.models = Append(@,
                             [document_id |-> w.doc, chunk_order |-> chunk.index,
                              sha256 |-> chunk.sha256, token_count |-> chunk.token_count])],
                      skipped)

\* lines 290-325 for the first n chunks of the batch: a duplicate is counted,
\* anything else staged as a vector record and a DocumentChunk row
RECURSIVE StageBatch(_, _, _, _, _)
StageBatch(tenant_id, batch, n, w, skipped) ==
    IF n = 0 \/ batch = <<>> THEN [work |-> w, skipped |-> skipped]
    ELSE LET chunk == Head(batch)
             embedding == Embedding(chunk.text)
         IN  IF has_similar_embedding(tenant_id, embedding)
             THEN StageBatch(tenant_id, Tail(batch), n - 1, w, skipped + 1)
             ELSE StageBatch(tenant_id, Tail(batch), n - 1,
                      [w EXCEPT
                         !.payloads = Append(@,
                             [id |-> chunk.sha256, embedding |-> embedding,
                              metadata |-> [tenant_id |-> tenant_id, document_id |-> w.doc,
                                            chunk_order |-> chunk.index,
                                            sha256 |-> chunk.sha256]]),
                         !.models = Append(@,
                             [document_id |-> w.doc, chunk_order |-> chunk.index,
                              sha256 |-> chunk.sha256, token_count |-> chunk.token_count])],
                      skipped)

\* one flush_batch: embed the batch, check each embedding against the store,
\* stage what survives, and go on with the chunk loop
ProcessBatch(r) ==
    /\ pc[r] = "batch"
    /\ LET t == args[r].tenant_id
           batch == work[r].batch
       IN  \/ \* embed raises
              /\ faults < MaxFaults
              /\ faults' = faults + 1
              /\ calls' = [calls EXCEPT ![r].embed = @ + 1]
              /\ \E cls \in EmbedRaises : RaiseInFile(r, cls, result[r])
           \/ \* the k-th has_similar_embedding call raises
              /\ faults < MaxFaults
              /\ faults' = faults + 1
              /\ \E k \in 1..Len(batch) :
                    LET st == StageBatch(t, batch, k - 1, work[r], 0)
                    IN  /\ calls' = [calls EXCEPT ![r].embed = @ + 1, ![r].search = @ + k]
                        /\ RaiseInFile(r, "VectorSearchError",
                               [result[r] EXCEPT !.skipped_chunks = @ + st.skipped])
           \/ \* the batch goes through
              /\ LET st == StageBatch(t, batch, Len(batch), work[r], 0)
                     lp == ChunkLoop([st.work EXCEPT !.batch = <<>>], args[r].batch_size,
                                     idx[r], [evs |-> <<>>, skipped |-> 0])
                 IN  /\ calls' = [calls EXCEPT ![r].embed = @ + 1,
                                               ![r].search = @ + Len(batch)]
                     /\ result' = [result EXCEPT ![r].skipped_chunks =
                                       @ + st.skipped + lp.skipped]
                     /\ events' = [events EXCEPT ![r] = @ \o lp.evs]
                     /\ work' = [work EXCEPT ![r] = lp.work]
                     /\ pc' = [pc EXCEPT ![r] = lp.next]
              /\ UNCHANGED <<run, dbRun, durable, raised, idx, docs, faults>>
    /\ UNCHANGED <<files, args, chunkRows, vectors, broken, prior>>
    /\ UNCHANGED svcVars

RECURSIVE SeqToSet(_)
SeqToSet(s) == IF s = <<>> THEN {} ELSE {Head(s)} \cup SeqToSet(Tail(s))

\* mutant: the Document is committed without being marked ready
PersistChunksNotReady(r) ==
    /\ pc[r] = "persist"
    /\ chunkRows' = chunkRows \cup SeqToSet(work[r].models)
    /\ docs' = CommitDocs(docs, r)
    /\ dbRun' = [dbRun EXCEPT ![r] = run[r]]
    /\ durable' = [durable EXCEPT ![r] = Len(events[r])]
    /\ pc' = [pc EXCEPT ![r] = "upsert"]
    /\ UNCHANGED <<files, args, run, events, result, idx, work, vectors, raised,
                   calls, broken, faults, prior>>
    /\ UNCHANGED svcVars

\* lines 258-260: the staged chunk rows are added, the Document marked ready,
\* and the session committed
PersistChunks(r) ==
    /\ pc[r] = "persist"
    /\ chunkRows' = chunkRows \cup SeqToSet(work[r].models)
    /\ docs' = CommitDocs({IF d.id = work[r].doc THEN [d EXCEPT !.status = "ready"] ELSE d
                              : d \in docs}, r)
    /\ dbRun' = [dbRun EXCEPT ![r] = run[r]]
    /\ durable' = [durable EXCEPT ![r] = Len(events[r])]
    /\ pc' = [pc EXCEPT ![r] = "upsert"]
    /\ UNCHANGED <<files, args, run, events, result, idx, work, vectors, raised,
                   calls, broken, faults, prior>>
    /\ UNCHANGED svcVars

\* upsert_batch: the records replace those with the same id
upsert_batch(store, payloads) ==
    {v \in store : \A i \in 1..Len(payloads) : payloads[i].id # v.id}
        \cup SeqToSet(payloads)

\* lines 262-277 and 98-99: the staged vectors are upserted, the run's
\* processed_documents incremented, document_completed recorded, commit
UpsertVectors(r) ==
    /\ pc[r] = "upsert"
    /\ LET t == args[r].tenant_id
           vector_payloads == work[r].payloads
       IN  \/ \* upsert_batch raises
              /\ vector_payloads # <<>>
              /\ faults < MaxFaults
              /\ faults' = faults + 1
              /\ calls' = [calls EXCEPT ![r].upsert = @ + 1]
              /\ RaiseInFile(r, "VectorUpsertError", result[r])
              /\ UNCHANGED vectors
           \/ /\ vectors' = [vectors EXCEPT ![t] = upsert_batch(@, vector_payloads)]
              /\ calls' = [calls EXCEPT ![r].upsert =
                               IF vector_payloads # <<>> THEN @ + 1 ELSE @]
              /\ run' = [run EXCEPT ![r].processed_documents = @ + 1]
              /\ dbRun' = [dbRun EXCEPT ![r] = run'[r]]
              /\ events' = [events EXCEPT ![r] =
                     Append(@, Event("document_completed", idx[r], "", Len(vector_payloads)))]
              /\ durable' = [durable EXCEPT ![r] = Len(events'[r])]
              /\ docs' = CommitDocs(docs, r)
              /\ result' = [result EXCEPT
                     ![r].processed_chunks = @ + Len(vector_payloads),
                     ![r].processed_documents = @ + 1]
              /\ idx' = [idx EXCEPT ![r] = @ + 1]
              /\ pc' = [pc EXCEPT ![r] = AfterFile(idx[r])]
              /\ work' = [work EXCEPT ![r] = NoWork]
              /\ UNCHANGED <<raised, faults>>
    /\ UNCHANGED <<files, args, chunkRows, broken, prior>>
    /\ UNCHANGED svcVars

\* ------------------------------------------------------------ specification
Next ==
    \E r \in Runs :
        \/ CreateRun(r)
        \/ ValidatePath(r)
        \/ EnsureServices(r)
        \/ StartRun(r)
        \/ CheckFile(r)
        \/ InsertDocument(r)
        \/ ProcessBatch(r)
        \/ PersistChunks(r)
        \/ UpsertVectors(r)
        \/ FinishRun(r)

Spec == Init /\ [][Next]_vars

\* ======================================================= EmbeddingService
MaxTexts == 2          \* texts in one embed call
MaxFallbacks == 1      \* configured fallback models
VectorDim == 3         \* settings.vector_dim, scaled down

\* stop_after_attempt(3)
MaxAttempts == 3

\* self.model and the names fallback_models is a prefix of
PrimaryModel == "primary"
FallbackPool == <<"fallback_a", "fallback_b", "fallback_c">>

\* the texts a caller passes: up to MaxTexts texts, each different (embed
\* does not look into a text)
Text(k) == [i \in 1..k |-> i]
TextChoices == {[i \in 1..n |-> Text(i)] : n \in 0..MaxTexts}

\* models_to_try = [self.model, *self.fallback_models]
models_to_try == <<PrimaryModel>> \o fallback_models

\* ------------------------------------------------------------- the server
\* the vector a model computes for a text: every model has its own
ModelNo(model_name) ==
    IF model_name = PrimaryModel THEN 0
    ELSE CHOOSE i \in 1..Len(FallbackPool) : FallbackPool[i] = model_name

ServerVector(model_name, text) ==
    [i \in 1..VectorDim |->
        IF i = 1 THEN Len(text) ELSE IF i = 2 THEN SumSeq(text) ELSE ModelNo(model_name)]

\* the well-formed answer: one item per input, in input order
GoodItems(model_name, inputs) ==
    [i \in 1..Len(inputs) |-> ServerVector(model_name, inputs[i])]

\* the bodies a 200 answer may carry: not JSON, JSON without "data", an empty
\* "data" list, the well-formed items, items with a vector of another
\* dimension, one item too many, one item too few
Body(json, has_data, data) == [json |-> json, has_data |-> has_data, data |-> data]

Bodies(model_name, inputs) ==
    LET good == GoodItems(model_name, inputs)
    IN  {Body(FALSE, FALSE, <<>>), Body(TRUE, FALSE, <<>>), Body(TRUE, TRUE, <<>>),
         Body(TRUE, TRUE, good),
         Body(TRUE, TRUE, [good EXCEPT ![1] = SubSeq(@, 1, VectorDim - 1)]),
         Body(TRUE, TRUE, Append(good, good[1])),
         Body(TRUE, TRUE, Tail(good))}

ErrorStatuses == {400, 404, 408, 429, 500, 503}

\* what may come back from one POST /api/embeddings
Responses(model_name, inputs) ==
    {[kind |-> "timeout", status |-> 0, body |-> "none"],
     [kind |-> "request_error", status |-> 0, body |-> "none"]}
    \cup {[kind |-> "http", status |-> s, body |-> "none"] : s \in ErrorStatuses}
    \cup {[kind |-> "http", status |-> 200, body |-> b] : b \in Bodies(model_name, inputs)}

\* ----------------------------------------------------- _request_embeddings
Raises(cls) == [exc |-> cls, embeddings |-> <<>>]

\* mutant: the final comparison of the count with the input is lost
RequestEmbeddingsNoCount(model_name, inputs, resp) ==
    IF resp.kind = "timeout" THEN Raises("EmbeddingTimeoutError")
    ELSE IF resp.kind = "request_error" THEN Raises("EmbeddingRetryableError")
    ELSE IF resp.status >= 500 \/ resp.status \in {408, 429}
    THEN Raises("EmbeddingRetryableError")
    ELSE IF resp.status >= 400 THEN Raises("EmbeddingServiceError")
    ELSE IF ~resp.body.json THEN Raises("JSONDecodeError")
    ELSE IF ~resp.body.has_data \/ resp.body.data = <<>>
    THEN Raises("EmbeddingServiceError")
    ELSE IF \E i \in 1..Len(resp.body.data) : Len(resp.body.data[i]) # VectorDim
    THEN Raises("EmbeddingServiceError")
    ELSE [exc |-> "none", embeddings |-> resp.body.data]

\* _request_embeddings: what one request raises, or the vectors it returns
_request_embeddings(model_name, inputs, resp) ==
    IF resp.kind = "timeout" THEN Raises("EmbeddingTimeoutError")
    ELSE IF resp.kind = "request_error" THEN Raises("EmbeddingRetryableError")
    ELSE IF resp.status >= 500 \/ resp.status \in {408, 429}
    THEN Raises("EmbeddingRetryableError")
    ELSE IF resp.status >= 400 THEN Raises("EmbeddingServiceError")
    ELSE IF ~resp.body.json THEN Raises("JSONDecodeError")
    ELSE IF ~resp.body.has_data \/ resp.body.data = <<>>
    THEN Raises("EmbeddingServiceError")
    ELSE IF \E i \in 1..Len(resp.body.data) : Len(resp.body.data[i]) # VectorDim
    THEN Raises("EmbeddingServiceError")
    ELSE IF Len(resp.body.data) # Len(inputs) THEN Raises("EmbeddingServiceError")
    ELSE [exc |-> "none",
          embeddings |-> [i \in 1..Len(resp.body.data) |->
                             [j \in 1..VectorDim |-> resp.body.data[i][j]]]]

\* ------------------------------------------------------ the retry policy
\* mutant: the policy retries every error of the service
RetryIfAnyServiceError(exc) == IsEmbeddingServiceError(exc)

\* retry_if_exception_type((EmbeddingRetryableError, EmbeddingTimeoutError))
retry_if_exception_type(exc) ==
    exc \in {"EmbeddingRetryableError", "EmbeddingTimeoutError"}

\* mutant: the policy stops one attempt later
StopAfterOneMore(attempt_number) == attempt_number >= MaxAttempts + 1

\* stop_after_attempt(3)
stop_after_attempt(attempt_number) == attempt_number >= MaxAttempts

\* _embed_with_retry when the policy gives up on an exception: with
\* reraise=True the last attempt's exception is raised as it is, and the
\* RetryError handler of lines 104-110 keeps a timeout and makes anything else
\* an EmbeddingRetryableError
_embed_with_retry(last_exc) ==
    IF last_exc = "EmbeddingTimeoutError" THEN "EmbeddingTimeoutError"
    ELSE IF retry_if_exception_type(last_exc) THEN "EmbeddingRetryableError"
    ELSE last_exc

\* ------------------------------------------------------------------ embed
\* mutant: the final else clause is lost and the loop goes on after a success
EmbedHandlerNoReturn(exc) ==
    IF exc = "none" THEN "continue"
    ELSE IF exc = "EmbeddingRetryableError" THEN "continue"
    ELSE IF IsEmbeddingServiceError(exc)
    THEN (IF exc = "EmbeddingTimeoutError" THEN "raise" ELSE "continue")
    ELSE "raise"

\* mutant: the isinstance test for a timeout is lost
EmbedHandlerNoTimeout(exc) ==
    IF exc = "none" THEN "return"
    ELSE IF IsEmbeddingServiceError(exc) THEN "continue"
    ELSE "raise"

\* lines 70-91: what the loop body does with the outcome of _embed_with_retry;
\* an exception that is no EmbeddingServiceError is not handled
EmbedHandler(exc) ==
    IF exc = "none" THEN "return"
    ELSE IF exc = "EmbeddingRetryableError" THEN "continue"
    ELSE IF IsEmbeddingServiceError(exc)
    THEN (IF exc = "EmbeddingTimeoutError" THEN "raise" ELSE "continue")
    ELSE "raise"

\* the service is configured and embed called: lines 63-67
Embed ==
    /\ epc = "idle"
    /\ \E ts \in TextChoices, n \in 0..MaxFallbacks :
          /\ texts' = ts
          /\ fallback_models' = SubSeq(FallbackPool, 1, n)
          /\ IF ts = <<>>
             THEN /\ epc' = "returned"
                  /\ UNCHANGED <<model_index, attempt>>
             ELSE /\ epc' = "request"
                  /\ model_index' = 1
                  /\ attempt' = 1
    /\ UNCHANGED <<last_error, requests, response, embeddings, embed_exc, primary_503>>
    /\ UNCHANGED <<runVars, storeVars, retrVars, fnVars>>

\* one request of _embed_with_retry for the current model, and what follows
\* from its outcome: another attempt, the return, the raise, the next model,
\* or the aggregate error of lines 93-97
RequestEmbeddings ==
    /\ epc = "request"
    /\ LET model_name == models_to_try[model_index]
       IN  \E resp \in Responses(model_name, texts) :
              LET out == _request_embeddings(model_name, texts, resp)
                  exc == _embed_with_retry(out.exc)
                  todo == EmbedHandler(exc)
                  error == [cls |-> exc, model |-> model_name]
              IN  /\ response' = resp
                  /\ requests' = Append(requests, [model |-> model_name, exc |-> out.exc])
                  /\ primary_503' = IF model_name # PrimaryModel THEN primary_503
                                    ELSE /\ resp.status = 503
                                         /\ (requests = <<>> \/ primary_503)
                  /\ IF retry_if_exception_type(out.exc) /\ ~stop_after_attempt(attempt)
                     THEN /\ attempt' = attempt + 1
                          /\ UNCHANGED <<epc, model_index, last_error, embeddings, embed_exc>>
                     ELSE IF todo = "return"
                     THEN /\ epc' = "returned"
                          /\ embeddings' = out.embeddings
                          /\ UNCHANGED <<model_index, attempt, last_error, embed_exc>>
                     ELSE IF todo = "raise"
                     THEN /\ epc' = "raised"
                          /\ embed_exc' = [cls |-> exc, models |-> <<>>, cause |-> NoError]
                          /\ UNCHANGED <<model_index, attempt, last_error, embeddings>>
                     ELSE /\ last_error' = error
                          /\ UNCHANGED embeddings
                          /\ IF model_index < Len(models_to_try)
                             THEN /\ model_index' = model_index + 1
                                  /\ attempt' = 1
                                  /\ UNCHANGED <<epc, embed_exc>>
                             ELSE /\ epc' = "raised"
                                  /\ embed_exc' = [cls |-> "EmbeddingServiceError",
                                                   models |-> models_to_try,
                                                   cause |-> error]
                                  /\ UNCHANGED <<model_index, attempt>>
    /\ UNCHANGED <<texts, fallback_models>>
    /\ UNCHANGED <<runVars, storeVars, retrVars, fnVars>>

EmbedInit ==
    /\ files = [i \in 1..NumFiles |-> TextA]
    /\ NoRuns
    /\ EmbedIdle
    /\ StoreIdle
    /\ ServicesIdle

EmbedNext == Embed \/ RequestEmbeddings

EmbedSpec == EmbedInit /\ [][EmbedNext]_vars

\* the call goes on: every posted request is answered or times out after
\* timeout_seconds, and the backoff waits are at most 5 seconds
EmbedLive == EmbedSpec /\ WF_vars(EmbedNext)

\* ====================================================== VectorStoreClient
MaxCalls == 2          \* calls of the client in one behaviour
MaxStoreFaults == 1    \* requests the store fails in one behaviour

\* build_vector_store: collection_prefix="tenant"
CollectionPrefix == <<"t", "e", "n", "a", "n", "t">>

TenantIds == {<<"a">>, <<"b">>}

\* mutant: the tenant id is left out of the name
CollectionNameNoTenant(tenant_id) == CollectionPrefix \o <<"_">>

\* _collection_name: f"{prefix}_{tenant_id}"
_collection_name(tenant_id) == CollectionPrefix \o <<"_">> \o tenant_id

\* the VectorPayloads a worker upserts for a tenant: an id, an embedding, and
\* metadata that carries the tenant
Payload(id, x, tenant_id) ==
    [id |-> id, embedding |-> [i \in 1..VectorDim |-> x],
     metadata |-> [tenant_id |-> tenant_id]]

PayloadChoices(tenant_id) ==
    {<<>>, <<Payload(1, 1, tenant_id)>>, <<Payload(1, 2, tenant_id)>>,
     <<Payload(1, 1, tenant_id), Payload(2, 1, tenant_id)>>}

\* lines 113-120: the points built from the payloads
upsert_points(payloads) ==
    [i \in 1..Len(payloads) |->
        [id |-> payloads[i].id, vector |-> payloads[i].embedding,
         payload |-> payloads[i].metadata]]

\* mutant: the early return for no points is lost
SendsUpsertAlways(points) == TRUE

\* lines 121-122: nothing is sent for no points
SendsUpsert(points) == points # <<>>

\* tenacity's default for the store's policy: every exception is retried,
\* stop_after_attempt(3)
StoreAttempts == 3

\* ---------------------------------------------------------------- the store
\* a collection of the store
Collection(size, points) == [size |-> size, points |-> points]

\* the store's upsert: a point replaces the point with its id
StoreUpsert(stored, points) ==
    {q \in stored : \A i \in 1..Len(points) : points[i].id # q.id}
        \cup {points[i] : i \in 1..Len(points)}

\* the store with collection name created or replaced
WithCollection(name, c) ==
    [n \in DOMAIN collections \cup {name} |-> IF n = name THEN c ELSE collections[n]]

\* lines 167-177: the VectorSearchResults made of the scored points
SearchResults(scored) == {[id |-> q.id, metadata |-> q.payload] : q \in scored}

\* the store before the workers start: a tenant's collection may exist, with
\* the configured dimension or another
StoredBefore ==
    {[n \in {_collection_name(t) : t \in T} |->
         Collection(IF n \in {_collection_name(t) : t \in D} THEN VectorDim ELSE VectorDim + 1, {})]
       : T \in SUBSET TenantIds, D \in SUBSET TenantIds}

\* ------------------------------------------------------------- the workers
Sent(w, req, name) == wsent' = [wsent EXCEPT ![w] = Append(@, [req |-> req, collection |-> name])]

\* the call of worker w returns or raises
Ends(w, exc, value) ==
    /\ wpc' = [wpc EXCEPT ![w] = "idle"]
    /\ wout' = [wout EXCEPT ![w] = [exc |-> exc, value |-> value]]
    /\ wcall' = [wcall EXCEPT ![w].attempt = 0]

\* the retry policy after a failed attempt: again, or the method's own error
Retry(w, exc) ==
    IF wcall[w].attempt < StoreAttempts
    THEN /\ wcall' = [wcall EXCEPT ![w].attempt = @ + 1]
         /\ UNCHANGED <<wpc, wout>>
    ELSE Ends(w, exc, {})

\* a worker calls ensure_collection, upsert_embeddings or search
Call(w) ==
    /\ wpc[w] = "idle"
    /\ ncalls < MaxCalls
    /\ ncalls' = ncalls + 1
    /\ wsent' = [wsent EXCEPT ![w] = <<>>]
    /\ \E t \in TenantIds :
          \/ /\ wcall' = [wcall EXCEPT ![w] = [NoCall EXCEPT !.op = "ensure_collection",
                                 !.tenant_id = t, !.attempt = 1, !.again = t \in ensured]]
             /\ wpc' = [wpc EXCEPT ![w] = "get"]
             /\ wout' = [wout EXCEPT ![w] = NoOutcome]
          \/ \E ps \in PayloadChoices(t) :
                /\ wcall' = [wcall EXCEPT ![w] = [NoCall EXCEPT !.op = "upsert_embeddings",
                                 !.tenant_id = t, !.points = upsert_points(ps),
                                 !.attempt = IF SendsUpsert(upsert_points(ps)) THEN 1 ELSE 0]]
                /\ wpc' = [wpc EXCEPT ![w] =
                              IF SendsUpsert(upsert_points(ps)) THEN "upsert" ELSE "idle"]
                /\ wout' = [wout EXCEPT ![w] = NoOutcome]
          \/ /\ wcall' = [wcall EXCEPT ![w] = [NoCall EXCEPT !.op = "search",
                              !.tenant_id = t, !.embedding = [i \in 1..VectorDim |-> 1],
                              !.attempt = 1]]
             /\ wpc' = [wpc EXCEPT ![w] = "search"]
             /\ wout' = [wout EXCEPT ![w] = NoOutcome]
    /\ UNCHANGED <<collections, sfaults, ensured>>
    /\ UNCHANGED <<runVars, embedVars, retrVars, fnVars>>

\* ensure_collection, lines 78-92: get_collection and what follows from its
\* answer.  Every UnexpectedResponse, the 404 of an absent collection and any
\* other status alike, leads to _create_collection.
GetCollection(w) ==
    /\ wpc[w] = "get"
    /\ LET name == _collection_name(wcall[w].tenant_id)
       IN  /\ Sent(w, "get_collection", name)
           /\ \/ \* the store answers
                 /\ IF name \notin DOMAIN collections
                    THEN /\ wpc' = [wpc EXCEPT ![w] = "create"]
                         /\ UNCHANGED <<wout, wcall, ensured>>
                    ELSE IF collections[name].size # VectorDim
                    THEN Ends(w, "VectorCollectionError", {}) /\ UNCHANGED ensured
                    ELSE /\ Ends(w, "none", {name})
                         /\ ensured' = ensured \cup {wcall[w].tenant_id}
                 /\ UNCHANGED sfaults
              \/ \* the store fails with a status: UnexpectedResponse
                 /\ sfaults < MaxStoreFaults
                 /\ sfaults' = sfaults + 1
                 /\ wpc' = [wpc EXCEPT ![w] = "create"]
                 /\ UNCHANGED <<wout, wcall, ensured>>
              \/ \* the request fails otherwise: timeout, connection error
                 /\ sfaults < MaxStoreFaults
                 /\ sfaults' = sfaults + 1
                 /\ Ends(w, "VectorCollectionError", {})
                 /\ UNCHANGED ensured
    /\ UNCHANGED <<collections, ncalls>>
    /\ UNCHANGED <<runVars, embedVars, retrVars, fnVars>>

\* _create_collection, lines 94-108, one attempt: the store creates the
\* collection, rejects the request for an existing one, or fails
CreateCollection(w) ==
    /\ wpc[w] = "create"
    /\ LET name == _collection_name(wcall[w].tenant_id)
       IN  /\ Sent(w, "create_collection", name)
           /\ \/ /\ IF name \in DOMAIN collections
                    THEN Retry(w, "VectorCollectionError") /\ UNCHANGED <<collections, ensured>>
                    ELSE /\ collections' = WithCollection(name, Collection(VectorDim, {}))
                         /\ Ends(w, "none", {name})
                         /\ ensured' = ensured \cup {wcall[w].tenant_id}
                 /\ UNCHANGED sfaults
              \/ \* the request fails before the store acts
                 /\ sfaults < MaxStoreFaults
                 /\ sfaults' = sfaults + 1
                 /\ Retry(w, "VectorCollectionError")
                 /\ UNCHANGED <<collections, ensured>>
              \/ \* the store creates the collection and the answer is lost
                 /\ sfaults < MaxStoreFaults
                 /\ name \notin DOMAIN collections
                 /\ sfaults' = sfaults + 1
                 /\ collections' = WithCollection(name, Collection(VectorDim, {}))
                 /\ Retry(w, "VectorCollectionError")
                 /\ UNCHANGED ensured
    /\ UNCHANGED ncalls
    /\ UNCHANGED <<runVars, embedVars, retrVars, fnVars>>

\* upsert_embeddings, lines 124-140, one attempt
UpsertEmbeddings(w) ==
    /\ wpc[w] = "upsert"
    /\ LET name == _collection_name(wcall[w].tenant_id)
           stored == WithCollection(name,
                         [collections[name] EXCEPT !.points = StoreUpsert(@, wcall[w].points)])
       IN  /\ Sent(w, "upsert", name)
           /\ \/ /\ IF name \notin DOMAIN collections
                    THEN Retry(w, "VectorUpsertError") /\ UNCHANGED collections
                    ELSE collections' = stored /\ Ends(w, "none", {})
                 /\ UNCHANGED sfaults
              \/ \* the request fails before the store acts
                 /\ sfaults < MaxStoreFaults
                 /\ sfaults' = sfaults + 1
                 /\ Retry(w, "VectorUpsertError")
                 /\ UNCHANGED collections
              \/ \* the store upserts the points and the answer is lost
                 /\ sfaults < MaxStoreFaults
                 /\ name \in DOMAIN collections
                 /\ sfaults' = sfaults + 1
                 /\ collections' = stored
                 /\ Retry(w, "VectorUpsertError")
    /\ UNCHANGED <<ncalls, ensured>>
    /\ UNCHANGED <<runVars, embedVars, retrVars, fnVars>>

\* search, lines 152-177, one attempt
Search(w) ==
    /\ wpc[w] = "search"
    /\ LET name == _collection_name(wcall[w].tenant_id)
       IN  /\ Sent(w, "search", name)
           /\ \/ /\ IF name \notin DOMAIN collections
                    THEN Retry(w, "VectorSearchError")
                    ELSE Ends(w, "none", SearchResults(collections[name].points))
                 /\ UNCHANGED sfaults
              \/ /\ sfaults < MaxStoreFaults
                 /\ sfaults' = sfaults + 1
                 /\ Retry(w, "VectorSearchError")
    /\ UNCHANGED <<collections, ncalls, ensured>>
    /\ UNCHANGED <<runVars, embedVars, retrVars, fnVars>>

StoreInit ==
    /\ files = [i \in 1..NumFiles |-> TextA]
    /\ NoRuns
    /\ EmbedIdle
    /\ collections \in StoredBefore
    /\ wpc = [w \in Workers |-> "idle"]
    /\ wcall = [w \in Workers |-> NoCall]
    /\ wsent = [w \in Workers |-> <<>>]
    /\ wout = [w \in Workers |-> NoOutcome]
    /\ ncalls = 0
    /\ sfaults = 0
    /\ ensured = {}
    /\ ServicesIdle

StoreNext ==
    \E w \in Workers :
        \/ Call(w)
        \/ GetCollection(w)
        \/ CreateCollection(w)
        \/ UpsertEmbeddings(w)
        \/ Search(w)

StoreSpec == StoreInit /\ [][StoreNext]_vars

\* ======================================================= RetrievalService
MaxTopK == 3           \* the largest top_k a caller passes

\* ------------------------------------------------------- RetrievalFilters
FilterFields == {"source_type", "tags", "visibility_scope"}

\* the filters a caller passes: each field None, empty or set
FilterObjects ==
    [source_type : {Some(<<>>), Some(<<"pdf">>)},
     tags : {None, Some(<<"hr">>)},
     visibility_scope : {Some(""), Some("employee")}]
FilterChoices == {None} \cup {Some(f) : f \in FilterObjects}

\* the truth value Python gives a field: None, [] and "" are false
Truthy(filters, field) ==
    /\ filters[field] # None
    /\ IF field = "visibility_scope" THEN filters[field][1] # ""
                                     ELSE filters[field][1] # <<>>

\* RetrievalFilters.as_dict: the fields that are set, and no others
as_dict(filters) ==
    [field \in {f \in FilterFields : Truthy(filters, f)} |-> filters[field][1]]

\* mutant: only None counts as unset
IsEmptyNoneOnly(filters) == \A field \in FilterFields : filters[field] = None

\* RetrievalFilters.is_empty
is_empty(filters) == ~ \E field \in FilterFields : Truthy(filters, field)

\* ------------------------------------------------------------------ top_k
TopKChoices == {None} \cup {Some(k) : k \in -1..MaxTopK}

\* mutant: the result is not clamped
ResolvedTopKNoClamp(top_k, top_k_default) ==
    IF top_k = None \/ top_k[1] = 0 THEN top_k_default ELSE top_k[1]

\* max(top_k or self._settings.retrieval_top_k_default, 1)
ResolvedTopK(top_k, top_k_default) ==
    Max(IF top_k = None \/ top_k[1] = 0 THEN top_k_default ELSE top_k[1], 1)

\* ----------------------------------------------------------------- scores
\* A raw score is a whole number of millionths; a normalized score is the
\* fraction <<numerator, denominator>>, the denominator positive.
Scores == {400000, 500000, 500001, 990000}

\* a < b for fractions; the fractions of one batch have one denominator
FracLess(a, b) ==
    IF a[2] = b[2] THEN a[1] < b[1] ELSE a[1] * b[2] < b[1] * a[2]

Abs(x) == IF x < 0 THEN 0 - x ELSE x

\* np.isclose(a, b): |a - b| <= atol + rtol * |b| with atol = 1e-8 and
\* rtol = 1e-5, which in millionths is 100000 * |a - b| <= 1000 + |b|
isclose(a, b) == Abs(a - b) <= (1000 + Abs(b)) \div 100000

RECURSIVE SeqMin(_)
SeqMin(s) == IF Len(s) = 1 THEN s[1] ELSE Min(s[1], SeqMin(Tail(s)))
RECURSIVE SeqMax(_)
SeqMax(s) == IF Len(s) = 1 THEN s[1] ELSE Max(s[1], SeqMax(Tail(s)))

\* mutant: the scores are not clipped
NormalizeNoClip(scores, ceiling) ==
    IF scores = <<>> THEN <<>>
    ELSE LET min_score == SeqMin(scores)
             max_score == SeqMax(scores)
         IN  IF isclose(max_score, min_score)
             THEN [i \in 1..Len(scores) |-> <<1, 1>>]
             ELSE [i \in 1..Len(scores) |->
                      <<scores[i] - min_score, max_score - min_score>>]

\* _normalize_scores: clip to the ceiling, then min-max scale; ones when the
\* maximum is close to the minimum
_normalize_scores(scores, ceiling) ==
    IF scores = <<>> THEN <<>>
    ELSE LET arr == [i \in 1..Len(scores) |-> Min(scores[i], ceiling)]
             min_score == SeqMin(arr)
             max_score == SeqMax(arr)
         IN  IF isclose(max_score, min_score)
             THEN [i \in 1..Len(arr) |-> <<1, 1>>]
             ELSE [i \in 1..Len(arr) |->
                      <<arr[i] - min_score, max_score - min_score>>]

\* ---------------------------------------------------------------- ranking
\* mutant: a pair goes ahead of the earlier pairs with its key
RECURSIVE SortedTiesReversed(_)
SortedTiesReversed(pairs) ==
    IF pairs = <<>> THEN <<>>
    ELSE LET n == Len(pairs)
             rest == SortedTiesReversed(SubSeq(pairs, 1, n - 1))
             k == Cardinality({i \in 1..Len(rest) : FracLess(pairs[n][2], rest[i][2])})
         IN  SubSeq(rest, 1, k) \o <<pairs[n]>> \o SubSeq(rest, k + 1, Len(rest))

\* sorted(pairs, key=lambda pair: pair[1], reverse=True): the sort is stable,
\* so a pair goes behind the earlier pairs whose key is not less than its own
RECURSIVE sorted_reverse(_)
sorted_reverse(pairs) ==
    IF pairs = <<>> THEN <<>>
    ELSE LET n == Len(pairs)
             rest == sorted_reverse(SubSeq(pairs, 1, n - 1))
             k == Cardinality({i \in 1..Len(rest) : ~FracLess(rest[i][2], pairs[n][2])})
         IN  SubSeq(rest, 1, k) \o <<pairs[n]>> \o SubSeq(rest, k + 1, Len(rest))

\* mutant: a score equal to the floor is dropped too
BelowOrAtFloor(norm_score, score_floor) == ~FracLess(score_floor, norm_score)

\* norm_score < request.score_floor
BelowFloor(norm_score, score_floor) == FracLess(norm_score, score_floor)

\* RetrievedChunk(...): chunk_id is the payload's chunk_id or, the hits here
\* carrying no payload, the record's id
RetrievedChunk(hit, norm_score) ==
    [chunk_id |-> hit.id, score |-> hit.score, normalized_score |-> norm_score]

\* RetrievalResponse(...)
RetrievalResponse(chunks, applied_filters, diagnostics) ==
    [chunks |-> chunks, applied_filters |-> applied_filters,
     diagnostics |-> diagnostics]

\* ----------------------------------------------- the services retrieve uses
\* how embed([query]) can end: with one vector; with an exception, which is
\* the aggregate EmbeddingServiceError, an EmbeddingTimeoutError or the
\* JSONDecodeError of an undecodable body; or, with a client other than
\* EmbeddingService, with no vector
QueryEmbedOutcomes ==
    {[exc |-> "none", value |-> v] : v \in {<<>>, <<(<<1, 1, 1>>)>>}}
        \cup {[exc |-> cls, value |-> <<>>] :
                 cls \in {"EmbeddingServiceError", "EmbeddingTimeoutError",
                          "JSONDecodeError"}}

\* search_with_filters: up to top_k records, each with its id (its rank in
\* the store's answer) and its raw score
search_with_filters(top_k) ==
    UNION {{[i \in 1..n |-> [id |-> i, score |-> s[i]]] : s \in [1..n -> Scores]} :
           n \in 0..Min(top_k, MaxTopK)}

\* --------------------------------------------------------------- retrieve
\* retrieve is called: the request is built (service.py 49-58)
Retrieve ==
    /\ rpc = "idle"
    /\ \E top_k \in TopKChoices, filters \in FilterChoices :
          /\ retrieve_args' = [tenant_id |-> "t1", top_k |-> top_k, filters |-> filters]
          /\ request' =
                [tenant_id |-> "t1",
                 filters |-> IF filters # None /\ ~is_empty(filters[1])
                             THEN filters ELSE None,
                 top_k |-> ResolvedTopK(top_k, _settings.retrieval_top_k_default),
                 score_floor |-> _settings.retrieval_score_floor]
    /\ rpc' = "embed"
    /\ UNCHANGED <<_settings, query_embeddings, searches, results,
                   normalized_scores, retrieved, retrieve_exc>>
    /\ UNCHANGED <<runVars, embedVars, storeVars, fnVars>>

\* the query is embedded (service.py 60-67): an exception of embed leaves
\* retrieve, no vector ends the call with an empty response
EmbedQuery ==
    /\ rpc = "embed"
    /\ \E outcome \in QueryEmbedOutcomes :
          /\ query_embeddings' = outcome
          /\ IF outcome.exc # "none"
             THEN /\ retrieve_exc' = outcome.exc
                  /\ rpc' = "raised"
                  /\ UNCHANGED retrieved
             ELSE IF outcome.value = <<>>
             THEN /\ retrieved' =
                        Some(RetrievalResponse(<<>>, request.filters,
                             IF _settings.retrieval_diagnostics
                             THEN [reason |-> "empty_embedding"] ELSE EmptyDict))
                  /\ rpc' = "done"
                  /\ UNCHANGED retrieve_exc
             ELSE /\ rpc' = "search"
                  /\ UNCHANGED <<retrieved, retrieve_exc>>
    /\ UNCHANGED <<_settings, retrieve_args, request, searches, results,
                   normalized_scores>>
    /\ UNCHANGED <<runVars, embedVars, storeVars, fnVars>>

\* the vector store is searched (service.py 69-91)
SearchWithFilters ==
    /\ rpc = "search"
    /\ searches' = Append(searches,
          [tenant_id |-> request.tenant_id,
           embedding |-> query_embeddings.value[1],
           top_k |-> request.top_k,
           filters |-> IF request.filters # None
                       THEN Some(as_dict(request.filters[1])) ELSE None])
    /\ \E found \in search_with_filters(request.top_k) :
          /\ results' = found
          /\ IF found = <<>>
             THEN /\ retrieved' =
                        Some(RetrievalResponse(<<>>, request.filters,
                             IF _settings.retrieval_diagnostics
                             THEN [reason |-> "no_results",
                                   requested_top_k |-> request.top_k]
                             ELSE EmptyDict))
                  /\ rpc' = "done"
             ELSE /\ rpc' = "rank"
                  /\ UNCHANGED retrieved
    /\ UNCHANGED <<_settings, retrieve_args, request, query_embeddings,
                   normalized_scores, retrieve_exc>>
    /\ UNCHANGED <<runVars, embedVars, storeVars, fnVars>>

\* the results are normalized, ordered and filtered (service.py 93-157); of
\* the diagnostics the score statistics are left out
RankResults ==
    /\ rpc = "rank"
    /\ LET norm == _normalize_scores([i \in 1..Len(results) |-> results[i].score],
                                     _settings.retrieval_score_ceiling)
           ordered == sorted_reverse([i \in 1..Len(results) |-> <<results[i], norm[i]>>])
           kept == SelectSeq(ordered, LAMBDA pair : ~BelowFloor(pair[2], request.score_floor))
           chunks == [i \in 1..Len(kept) |-> RetrievedChunk(kept[i][1], kept[i][2])]
           dropped == Len(ordered) - Len(kept)
       IN  /\ normalized_scores' = norm
           /\ retrieved' =
                 Some(RetrievalResponse(chunks, request.filters,
                      IF _settings.retrieval_diagnostics
                      THEN [requested_top_k |-> request.top_k,
                            raw_results |-> Len(results),
                            kept |-> Len(chunks),
                            dropped_below_floor |-> dropped,
                            floor |-> request.score_floor]
                      ELSE EmptyDict))
    /\ rpc' = "done"
    /\ UNCHANGED <<_settings, retrieve_args, request, query_embeddings, searches,
                   results, retrieve_exc>>
    /\ UNCHANGED <<runVars, embedVars, storeVars, fnVars>>

\* the settings a service is built with
SettingsChoices ==
    {Settings(k, floor, diagnostics) :
        k \in {0, TopKDefault},
        floor \in {<<0, 1>>, retrieval_score_floor, <<21, 20>>},
        diagnostics \in BOOLEAN}

RetrieveInit ==
    /\ files = [i \in 1..NumFiles |-> TextA]
    /\ NoRuns
    /\ EmbedIdle
    /\ StoreIdle
    /\ _settings \in SettingsChoices
    /\ RetrieveIdle
    /\ FunctionIdle

RetrieveNext == Retrieve \/ EmbedQuery \/ SearchWithFilters \/ RankResults

RetrieveSpec == RetrieveInit /\ [][RetrieveNext]_vars

\* =========================================== chunk_text, is_duplicate_embedding
MaxTokens == 4         \* tokens in a text
MaxChunkSize == 3      \* chunk_size is 1..MaxChunkSize, chunk_overlap below it or not
DedupDim == 2          \* dimension of the vectors compared
MaxStored == 2         \* stored vectors a candidate is compared with

TokenLists == UNION {[1..n -> {1, 2}] : n \in 0..MaxTokens}
Vectors == [1..DedupDim -> {0, 1, 2}]

\* the sets of at most MaxStored vectors
StoredChoices ==
    UNION {{{s[i] : i \in 1..n} : s \in [1..n -> Vectors]} : n \in 0..MaxStored}

FunctionCalls ==
    {[NoFunction EXCEPT !.fn = "chunk_text", !.tokens = t, !.chunk_size = s,
                        !.chunk_overlap = o] :
        t \in TokenLists, s \in 1..MaxChunkSize, o \in 0..MaxChunkSize}
    \cup
    {[NoFunction EXCEPT !.fn = "is_duplicate_embedding",
                        !.existing_embeddings = e, !.candidate = c] :
        e \in StoredChoices, c \in Vectors}

\* chunk_text(text, chunk_size, chunk_overlap), the text given by its tokens
ChunkText ==
    /\ fcall.fn = "chunk_text"
    /\ ~freturn.returned
    /\ freturn' = [returned |-> TRUE,
                   chunks |-> chunk_text(fcall.tokens, fcall.chunk_size,
                                         fcall.chunk_overlap),
                   duplicate |-> FALSE]
    /\ UNCHANGED fcall
    /\ UNCHANGED <<runVars, embedVars, storeVars, retrVars>>

\* is_duplicate_embedding(existing_embeddings, candidate)
IsDuplicateEmbedding ==
    /\ fcall.fn = "is_duplicate_embedding"
    /\ ~freturn.returned
    /\ freturn' = [returned |-> TRUE, chunks |-> <<>>,
                   duplicate |-> is_duplicate_embedding(fcall.existing_embeddings,
                                                        fcall.candidate)]
    /\ UNCHANGED fcall
    /\ UNCHANGED <<runVars, embedVars, storeVars, retrVars>>

FunctionInit ==
    /\ files = [i \in 1..NumFiles |-> TextA]
    /\ NoRuns
    /\ EmbedIdle
    /\ StoreIdle
    /\ _settings = None
    /\ RetrieveIdle
    /\ fcall \in FunctionCalls
    /\ freturn = NotReturned

FunctionNext == ChunkText \/ IsDuplicateEmbedding

FunctionSpec == FunctionInit /\ [][FunctionNext]_vars

\* ------------------------------------------------ one run, richer documents
\* One ingestion run over a directory of text files chosen to exercise the
\* chunk loop: an empty file, a file whose two chunks differ in content but
\* get the same embedding, a file of three distinct chunks, and a file whose
\* second chunk repeats the first.
TextFile(tokens) == [suffix |-> ".txt", mime |-> "text/plain", bytes |-> tokens]
DocumentTexts ==
    {TextFile(<<>>), TextFile(<<1, 2, 2, 1>>), TextFile(<<1, 1, 1, 2, 2>>),
     TextFile(<<1, 2, 1, 2, 1>>)}

DocumentInit ==
    /\ files \in [1..NumFiles -> DocumentTexts]
    /\ NoRuns
    /\ EmbedIdle
    /\ StoreIdle
    /\ ServicesIdle

DocumentNext ==
    \E r \in {"r1"} :
        \/ CreateRun(r)
        \/ ValidatePath(r)
        \/ EnsureServices(r)
        \/ StartRun(r)
        \/ CheckFile(r)
        \/ InsertDocument(r)
        \/ ProcessBatch(r)
        \/ PersistChunks(r)
        \/ UpsertVectors(r)
        \/ FinishRun(r)

DocumentSpec == DocumentInit /\ [][DocumentNext]_vars

\* ================================================================== claims
\* the exception classes of the error events run r has recorded
ErrorReasons(r) ==
    {events[r][i].reason : i \in {j \in 1..Len(events[r]) : events[r][j].type = "error"}}

Terminal(r) == pc[r] \in {"done", "raised"}

\* the events run r recorded for its file i
FileEvents(r, i) == {j \in 1..Len(events[r]) : events[r][j].file = i}

\* C1: if embed raised while a file's batch was processed, the run ends failed
\* and that error reaches the caller of ingest_directory; the run never ends
\* completed.  (Only embed puts these classes into an error event.)
C1_EmbedFailureFailsRun ==
    \A r \in Runs :
        (Terminal(r) /\ ErrorReasons(r) \cap EmbedRaises # {})
            => /\ pc[r] = "raised"
               /\ run[r].status = "failed"
               /\ raised[r] \in EmbedRaises

\* C2: if has_similar_embedding or upsert_batch raised while a file was
\* processed, the failure is an error event, the loop is aborted, the run ends
\* failed and the error is re-raised, instead of the loop going on.
C2_VectorFailureFailsRun ==
    \A r \in Runs :
        (ErrorReasons(r) \cap {"VectorSearchError", "VectorUpsertError"} # {})
            => /\ pc[r] = "raised"
               /\ run[r].status = "failed"
               /\ IsVectorStoreError(raised[r])

\* C3: a file whose extraction raises adds exactly one to failed_documents and
\* one error event naming the file, the run goes on with the next file and is
\* not aborted; a finished run has handled every file, and a run whose only
\* failures are of this kind ends completed.
C3_ExtractionStep(r) ==
    (/\ pc[r] = "check"
     /\ _extract_text(files[idx[r]]) = "raise"
     /\ <<pc[r], idx[r], events[r]>> # <<pc'[r], idx'[r], events'[r]>>)
        => /\ result'[r] = [result[r] EXCEPT !.failed_documents = @ + 1]
           /\ Len(events'[r]) = Len(events[r]) + 1
           /\ SubSeq(events'[r], 1, Len(events[r])) = events[r]
           /\ events'[r][Len(events'[r])].type = "error"
           /\ events'[r][Len(events'[r])].file = idx[r]
           /\ idx'[r] = idx[r] + 1
           /\ pc'[r] = (IF idx[r] < Len(files) THEN "check" ELSE "finish")
           /\ run'[r] = run[r]
           /\ raised'[r] = "none"

C3_Outcome(r) ==
    /\ pc[r] = "done" => \A i \in 1..Len(files) : FileEvents(r, i) # {}
    /\ (Terminal(r) /\ run[r].started /\ ErrorReasons(r) \subseteq {"PdfReadError"})
          => /\ pc[r] = "done"
             /\ run[r].status = "completed"
             /\ dbRun[r].status = "completed"
             /\ result[r].failed_documents = Cardinality({i \in 1..Len(files) : files[i] = BadPdf})

StatusMoves ==
    {<<"none", "pending">>, <<"pending", "running">>,
     <<"running", "completed">>, <<"running", "failed">>}

C4_StatusTransitions ==
    [][\A r \in Runs :
          /\ run'[r].status # run[r].status
                => <<run[r].status, run'[r].status>> \in StatusMoves
          /\ dbRun'[r].status # dbRun[r].status
                => <<dbRun[r].status, dbRun'[r].status>> \in StatusMoves]_vars

\* one run has completed and the other has failed
C4_Witness ==
    \E r, q \in Runs :
        /\ dbRun[r].status = "completed" /\ run[r].status = "completed"
        /\ dbRun[q].status = "failed" /\ run[q].status = "failed"

\* C5: whenever ingest_directory has raised an ingestion failure (anything but
\* the path validation's ValueError) to its caller, the committed run row has
\* status failed.
C5_FailedBeforeRaise ==
    \A r \in Runs :
        (pc[r] = "raised" /\ raised[r] # "ValueError")
            => dbRun[r].status = "failed"

\* C6: a path that is not a directory, or not the root or below it, makes
\* ingest_directory raise ValueError with the run's status, timestamps,
\* counters and events as they were and no call made to either service.
C6_InvalidPathNoEffect ==
    \A r \in Runs :
        (args[r].path \in {"not_a_directory", "outside_root"} /\ pc[r] # "validate")
            => /\ pc[r] = "raised"
               /\ raised[r] = "ValueError"
               /\ run[r] = [NoRun EXCEPT !.status = "pending"]
               /\ dbRun[r] = [NoRun EXCEPT !.status = "pending"]
               /\ events[r] = <<>>
               /\ durable[r] = 0
               /\ result[r] = NewResult
               /\ calls[r] = NoCalls
               /\ \A d \in docs : d.owner # r

\* validation has failed for a path outside the root
C6_Witness ==
    \E r \in Runs : args[r].path = "outside_root" /\ raised[r] = "ValueError"

\* C7: a file of unsupported type adds one to skipped_documents and one
\* document_skipped event with reason unsupported_mime, creates no Document or
\* chunk row and causes no call to the services; the other files keep their
\* outcome, so a run without failures ends completed with every unsupported
\* file skipped once and every other file processed or skipped as a duplicate.
C7_SkipStep(r) ==
    (/\ pc[r] = "check"
     /\ files[idx[r]] = Binary
     /\ <<pc[r], idx[r], events[r]>> # <<pc'[r], idx'[r], events'[r]>>)
        => /\ result'[r] = [result[r] EXCEPT !.skipped_documents = @ + 1]
           /\ events'[r] = Append(events[r],
                                  Event("document_skipped", idx[r], "unsupported_mime", 0))
           /\ docs' = docs
           /\ chunkRows' = chunkRows
           /\ vectors' = vectors
           /\ calls'[r] = calls[r]
           /\ run'[r] = run[r]
           /\ idx'[r] = idx[r] + 1
           /\ pc'[r] = (IF idx[r] < Len(files) THEN "check" ELSE "finish")

C7_Outcome(r) ==
    (pc[r] = "done" /\ ErrorReasons(r) = {})
        => LET unsupported == {i \in 1..Len(files) : files[i] = Binary}
               duplicates == {i \in 1..Len(files) :
                                 \E j \in FileEvents(r, i) : events[r][j].reason = "duplicate"}
           IN  /\ run[r].status = "completed"
               /\ result[r].skipped_documents = Cardinality(unsupported \cup duplicates)
               /\ result[r].processed_documents =
                      Len(files) - Cardinality(unsupported \cup duplicates)
               /\ \A i \in unsupported :
                      /\ Cardinality(FileEvents(r, i)) = 1
                      /\ \A d \in docs : d.id # <<r, i>>

C7_UnsupportedSkipped ==
    /\ [][\A r \in Runs : C7_SkipStep(r)]_vars
    /\ [](\A r \in Runs : C7_Outcome(r))

\* one unsupported file and one valid file: completed, one skipped, one processed
C7_Witness ==
    \E r \in Runs :
        /\ pc[r] = "done"
        /\ files[1] = Binary
        /\ files[2] = TextB
        /\ run[r].status = "completed"
        /\ result[r].skipped_documents = 1
        /\ result[r].processed_documents = 1

\* C8: a run created after a run for the same tenant has completed over the
\* same directory creates no Document row and no DocumentChunk row, issues no
\* embed call and no upsert, and, once started, ends completed.
C8_ReingestIdempotent ==
    \A r \in Runs :
        \A q \in prior[r] :
            args[q].tenant_id = args[r].tenant_id
                => /\ \A d \in docs : d.owner # r
                   /\ \A c \in chunkRows : c.document_id[1] # r
                   /\ calls[r].upsert = 0
                   /\ calls[r].embed = 0
                   /\ (Terminal(r) /\ run[r].started)
                         => /\ pc[r] = "done"
                            /\ run[r].status = "completed"
                            /\ dbRun[r].status = "completed"
                            /\ result[r].processed_documents = 0

\* the second run over the directory has completed, skipping a duplicate the
\* first run had indexed
C8_Witness ==
    \E r \in Runs :
        \E q \in prior[r] :
            /\ args[q].tenant_id = args[r].tenant_id
            /\ result[q].processed_documents >= 1
            /\ pc[r] = "done"
            /\ "duplicate" \in {events[r][j].reason : j \in 1..Len(events[r])}

\* C9: a text file is skipped as a duplicate exactly when the run's session
\* sees a Document with the file's content hash for the run's own tenant; a
\* Document of another tenant never causes the skip; the skipped file creates
\* no Document and no chunk row and causes no embed or upsert call.
C9_DedupStep(r) ==
    LET f == files[idx[r]]
        existing == \E d \in docs : /\ d.tenant_id = args[r].tenant_id
                                    /\ d.sha256 = <<"sha256", f.bytes>>
                                    /\ (d.dstatus # "none" \/ d.owner = r)
    IN  (/\ pc[r] = "check"
         /\ f \in {TextA, TextB}
         /\ ~broken[r]
         /\ <<pc[r], idx[r], events[r]>> # <<pc'[r], idx'[r], events'[r]>>)
            => IF existing
               THEN /\ events'[r] = Append(events[r],
                                           Event("document_skipped", idx[r], "duplicate", 0))
                    /\ result'[r] = [result[r] EXCEPT !.skipped_documents = @ + 1]
                    /\ docs' = docs
                    /\ chunkRows' = chunkRows
                    /\ vectors' = vectors
                    /\ calls'[r] = calls[r]
                    /\ idx'[r] = idx[r] + 1
               ELSE /\ pc'[r] = "insert"
                    /\ events'[r] = events[r]
                    /\ result'[r] = result[r]

C9_TenantScopedDedup == [][\A r \in Runs : C9_DedupStep(r)]_vars

\* a run goes on to insert a Document although another tenant has committed
\* a Document with the same content hash
C9_Witness ==
    \E r \in Runs :
        /\ pc[r] = "insert"
        /\ \E d \in docs : /\ d.dstatus # "none"
                           /\ d.sha256 = sha256_digest(files[idx[r]].bytes)
                           /\ d.tenant_id # args[r].tenant_id

\* C10: at every moment, also while runs of one tenant process the same
\* content at the same time or a directory holds the same bytes twice, no two
\* Document rows share (tenant, content hash).
C10_UniqueTenantHash ==
    \A d1, d2 \in docs :
        (d1.tenant_id = d2.tenant_id /\ d1.sha256 = d2.sha256) => d1 = d2

\* two runs of one tenant raced on the same content and the index rejected
\* the second insert
C10_Witness ==
    \E r, q \in Runs :
        /\ r # q
        /\ broken[r]
        /\ args[r].tenant_id = args[q].tenant_id
        /\ "IntegrityError" \in ErrorReasons(r)

\* ------------------------------------------------------------ EmbedSpec
\* the position of a model in models_to_try
ModelPos(model_name) ==
    CHOOSE i \in 1..Len(models_to_try) : models_to_try[i] = model_name

\* the requests posted to a model
RequestsTo(model_name) == {j \in 1..Len(requests) : requests[j].model = model_name}

\* C11: the models are requested in the order [primary, fallbacks...]: the
\* first request goes to the primary, a request goes to the model of the one
\* before it or to the next model, and to a model only when every request to
\* every earlier model has failed; no request follows one that succeeded;
\* what embed returns are the vectors of the one model that succeeded; and
\* when the primary always answered 503 and a fallback succeeded, embed
\* returns that fallback's vectors with the primary requested before it.
C11_Order ==
    \A j \in 1..Len(requests) :
        LET m == ModelPos(requests[j].model)
        IN  /\ j = 1 => m = 1
            /\ j > 1 => m \in {ModelPos(requests[j - 1].model),
                                ModelPos(requests[j - 1].model) + 1}
            /\ \A k \in 1..(m - 1) :
                   /\ \E i \in 1..(j - 1) : requests[i].model = models_to_try[k]
                   /\ \A i \in RequestsTo(models_to_try[k]) : i < j /\ requests[i].exc # "none"
            /\ j < Len(requests) => requests[j].exc # "none"

C11_Returned ==
    (epc = "returned" /\ texts # <<>>)
        => /\ requests # <<>>
           /\ requests[Len(requests)].exc = "none"
           /\ embeddings = [i \in 1..Len(texts) |->
                   ServerVector(requests[Len(requests)].model, texts[i])]

C11_Primary503 ==
    (primary_503 /\ requests # <<>> /\ requests[Len(requests)].exc = "none")
        => /\ epc = "returned"
           /\ requests[1].model = PrimaryModel
           /\ requests[Len(requests)].model # PrimaryModel
           /\ embeddings = [i \in 1..Len(texts) |->
                   ServerVector(requests[Len(requests)].model, texts[i])]

C11_ModelOrder == C11_Order /\ C11_Returned /\ C11_Primary503

\* the primary answered 503 on each of its attempts and the fallback's
\* vectors were returned
C11_Witness ==
    /\ epc = "returned"
    /\ primary_503
    /\ Len(requests) = MaxAttempts + 1
    /\ requests[Len(requests)].model = FallbackPool[1]
    /\ embeddings = [i \in 1..Len(texts) |-> ServerVector(FallbackPool[1], texts[i])]

\* C12: no model is sent more than 3 requests; a request to the model of the
\* request before it is sent only when that one ended in a request timeout, a
\* transport error or a status >= 500, 408 or 429; so there are never more
\* than 3 x (1 + number of fallbacks) requests, and every call ends, having
\* returned vectors or raised.
RetryableAnswer(resp) ==
    \/ resp.kind \in {"timeout", "request_error"}
    \/ resp.kind = "http" /\ (resp.status >= 500 \/ resp.status \in {408, 429})

C12_Budget ==
    /\ \A i \in 1..Len(models_to_try) :
           Cardinality(RequestsTo(models_to_try[i])) <= 3
    /\ Len(requests) <= 3 * (1 + Len(fallback_models))
    /\ epc = "returned" => embed_exc = NoException
    /\ epc = "raised" => embed_exc.cls # "none" /\ embeddings = <<>>

C12_RetryStep ==
    (/\ Len(requests') = Len(requests) + 1
     /\ Len(requests') >= 2
     /\ requests'[Len(requests')].model = requests'[Len(requests') - 1].model)
        => RetryableAnswer(response)

C12_BoundedRetries ==
    /\ [](C12_Budget)
    /\ [][C12_RetryStep]_vars
    /\ <>(epc \in {"returned", "raised"})

\* every model used its three attempts and embed raised the aggregate error
C12_Witness ==
    /\ epc = "raised"
    /\ fallback_models # <<>>
    /\ Len(requests) = 3 * (1 + Len(fallback_models))
    /\ embed_exc.cls = "EmbeddingServiceError"

\* C13: a response that is a 4xx other than 408 and 429, has no data list or
\* an empty one, has a vector of another dimension, or has a count of vectors
\* other than the input's, is never followed by another request to the same
\* model: the next request goes to the next fallback, and without one embed
\* raises; a model that answers its first request this way has received
\* exactly one request.
NonRetryableAnswer(resp, inputs) ==
    /\ resp.kind = "http"
    /\ \/ resp.status >= 400 /\ resp.status < 500 /\ resp.status \notin {408, 429}
       \/ /\ resp.status = 200
          /\ resp.body.json
          /\ \/ ~resp.body.has_data
             \/ resp.body.data = <<>>
             \/ \E i \in 1..Len(resp.body.data) : Len(resp.body.data[i]) # VectorDim
             \/ Len(resp.body.data) # Len(inputs)

C13_AbortStep ==
    (NonRetryableAnswer(response', texts) /\ Len(requests') > Len(requests))
        => /\ Len(requests') = Len(requests) + 1
           /\ requests'[Len(requests')].exc = "EmbeddingServiceError"
           /\ IF model_index < Len(models_to_try)
              THEN epc' = "request" /\ model_index' = model_index + 1 /\ attempt' = 1
              ELSE epc' = "raised" /\ embed_exc'.cls = "EmbeddingServiceError"

C13_NoRequestAfter ==
    (NonRetryableAnswer(response, texts) /\ Len(requests') > Len(requests))
        => /\ requests'[Len(requests')].model # requests[Len(requests)].model
           /\ ModelPos(requests'[Len(requests')].model)
                  = ModelPos(requests[Len(requests)].model) + 1

C13_OneRequest ==
    \A j \in 1..Len(requests) :
        (/\ requests[j].exc = "EmbeddingServiceError"
         /\ (j = 1 \/ requests[j - 1].model # requests[j].model))
            => RequestsTo(requests[j].model) = {j}

C14_TimeoutIsFatal ==
    /\ \A i \in 1..Len(models_to_try) :
           LET to == RequestsTo(models_to_try[i])
           IN  (/\ Cardinality(to) = MaxAttempts
                /\ \A j \in to : requests[j].exc = "EmbeddingTimeoutError")
                   => /\ epc = "raised"
                      /\ embed_exc.cls = "EmbeddingTimeoutError"
                      /\ requests[Len(requests)].model = models_to_try[i]
                      /\ \A k \in (i + 1)..Len(models_to_try) :
                             RequestsTo(models_to_try[k]) = {}
    /\ embed_exc.cls = "EmbeddingTimeoutError"
          => /\ epc = "raised"
             /\ requests[Len(requests)].exc = "EmbeddingTimeoutError"
             /\ Cardinality(RequestsTo(requests[Len(requests)].model)) = MaxAttempts

\* the primary timed out three times, embed raised the timeout and the
\* configured fallback was never requested
C14_Witness ==
    /\ embed_exc.cls = "EmbeddingTimeoutError"
    /\ fallback_models # <<>>
    /\ Len(requests) = MaxAttempts
    /\ \A j \in 1..Len(requests) :
           requests[j] = [model |-> PrimaryModel, exc |-> "EmbeddingTimeoutError"]

\* C15: when embed ends without vectors and without a timeout, every model
\* having failed, it has raised one aggregate EmbeddingServiceError after
\* each model was requested, which names all the models and has the failure
\* of the last model as its cause.
C15_AggregateError ==
    (epc = "raised" /\ embed_exc.cls # "EmbeddingTimeoutError")
        => /\ embed_exc.cls = "EmbeddingServiceError"
           /\ embed_exc.models = models_to_try
           /\ \A i \in 1..Len(models_to_try) : RequestsTo(models_to_try[i]) # {}
           /\ embed_exc.cause.model = models_to_try[Len(models_to_try)]
           /\ embed_exc.cause.cls = requests[Len(requests)].exc

\* C16: when embed has returned, it returned one vector per input text, each
\* of the configured dimension, the i-th being the i-th item of the response
\* and so the vector of the i-th text; for no texts it returned the empty list
\* and posted no request.
C16_OneVectorPerText ==
    epc = "returned"
        => /\ Len(embeddings) = Len(texts)
           /\ \A i \in 1..Len(embeddings) : Len(embeddings[i]) = VectorDim
           /\ texts = <<>> => embeddings = <<>> /\ requests = <<>>
           /\ texts # <<>>
                 => \A i \in 1..Len(texts) :
                       /\ embeddings[i] = response.body.data[i]
                       /\ embeddings[i] = ServerVector(requests[Len(requests)].model, texts[i])

\* two different texts were embedded, each with its own vector
C16_Witness ==
    /\ epc = "returned"
    /\ Len(texts) = 2
    /\ texts[1] # texts[2]
    /\ Len(embeddings) = 2
    /\ embeddings[1] # embeddings[2]

\* ------------------------------------------------------------ StoreSpec
\* the requests of a kind the call of worker w has sent
SentOf(w, req) == {j \in 1..Len(wsent[w]) : wsent[w][j].req = req}

\* the collection of the tenant of worker w's call
Named(w) == CollectionPrefix \o <<"_">> \o wcall[w].tenant_id

\* C17: a call of ensure_collection for a tenant whose collection exists with
\* another dimension than the configured one sends nothing but get_collection
\* (no create, no update, no delete) and ends raising VectorCollectionError.
C17_MismatchIsFatal ==
    \A w \in Workers :
        (/\ wcall[w].op = "ensure_collection"
         /\ Named(w) \in DOMAIN collections
         /\ collections[Named(w)].size # VectorDim)
            => /\ \A j \in 1..Len(wsent[w]) : wsent[w][j].req = "get_collection"
               /\ (wpc[w] = "idle" /\ ncalls > 0) => wout[w].exc = "VectorCollectionError"

\* C18: ensure_collection sends create_collection only while the tenant's
\* collection is absent; when it has returned normally the collection exists
\* with the configured dimension; and a call for a tenant it has returned for
\* before sends no create_collection.
C18_CreateStep ==
    \A w \in Workers :
        (Len(wsent'[w]) > Len(wsent[w]) /\ wsent'[w][Len(wsent'[w])].req = "create_collection")
            => wsent'[w][Len(wsent'[w])].collection \notin DOMAIN collections

C18_Ensured ==
    \A w \in Workers :
        wcall[w].op = "ensure_collection"
            => /\ (wpc[w] = "idle" /\ wout[w].exc = "none")
                     => /\ Named(w) \in DOMAIN collections
                        /\ collections[Named(w)].size = VectorDim
               /\ wcall[w].again => SentOf(w, "create_collection") = {}

C18_GetOrCreate == [][C18_CreateStep]_vars /\ [](C18_Ensured)

\* C19: every request of a call for a tenant names the collection made of the
\* prefix and that tenant's id, two tenants never have the same collection
\* name, every stored point lies in the collection of the tenant its metadata
\* names, and a search returns only records of the tenant searched for.
C19_TenantIsolation ==
    /\ \A w \in Workers : \A j \in 1..Len(wsent[w]) : wsent[w][j].collection = Named(w)
    /\ \A t1, t2 \in TenantIds : t1 # t2 => _collection_name(t1) # _collection_name(t2)
    /\ \A n \in DOMAIN collections : \A q \in collections[n].points :
           n = CollectionPrefix \o <<"_">> \o q.payload.tenant_id
    /\ \A w \in Workers :
           (wcall[w].op = "search" /\ wpc[w] = "idle" /\ wout[w].exc = "none")
               => \A x \in wout[w].value : x.metadata.tenant_id = wcall[w].tenant_id

\* a search for one tenant returned nothing while the other tenant's
\* collection held a point
C19_Witness ==
    \E w \in Workers :
        /\ wcall[w].op = "search"
        /\ wpc[w] = "idle"
        /\ wout[w] = [exc |-> "none", value |-> {}]
        /\ \E n \in DOMAIN collections : n # Named(w) /\ collections[n].points # {}

\* C20: a collection never holds two points with one id; an upsert whose
\* points are all stored already as they are leaves the store as it is, also
\* when the retry policy or another worker sends it again; and
\* upsert_embeddings with no payloads sends no request.
C20_OnePerId ==
    /\ \A n \in DOMAIN collections : \A p, q \in collections[n].points : p.id = q.id => p = q
    /\ \A w \in Workers :
           (wcall[w].op = "upsert_embeddings" /\ wcall[w].points = <<>>)
               => wsent[w] = <<>> /\ wpc[w] = "idle"

C20_SameAgainStep ==
    \A w \in Workers :
        (/\ wpc[w] = "upsert"
         /\ Len(wsent'[w]) > Len(wsent[w])
         /\ Named(w) \in DOMAIN collections
         /\ \A i \in 1..Len(wcall[w].points) :
                wcall[w].points[i] \in collections[Named(w)].points)
            => collections' = collections

C20_IdempotentUpsert == [](C20_OnePerId) /\ [][C20_SameAgainStep]_vars

\* an upsert whose answer was lost was sent again, and a second worker sent
\* the same point: the collection holds it once
C20_Witness ==
    \E w, v \in Workers :
        /\ w # v
        /\ wcall[w].op = "upsert_embeddings" /\ wcall[v].op = "upsert_embeddings"
        /\ wpc[w] = "idle" /\ wpc[v] = "idle"
        /\ wout[w].exc = "none" /\ wout[v].exc = "none"
        /\ Len(wsent[w]) = 2
        /\ Len(wsent[v]) = 1
        /\ wcall[w].tenant_id = wcall[v].tenant_id
        /\ wcall[w].points = wcall[v].points
        /\ Len(wcall[w].points) = 1
        /\ collections[Named(w)].points = {wcall[w].points[1]}

\* ------------------------------------------------------------ RetrieveSpec
\* the retrieve call got a vector for its query
QueryEmbedded ==
    /\ rpc \notin {"idle", "embed"}
    /\ query_embeddings.exc = "none"
    /\ query_embeddings.value # <<>>

\* a call searches at most once, and once when it returned with the query embedded
OneSearch ==
    /\ Len(searches) <= 1
    /\ (rpc \in {"rank", "done"} /\ QueryEmbedded) => Len(searches) = 1

\* C21 as stated: retrieve searches once, and the top_k it passes is the
\* explicit top_k when that is at least 1 and else (absent, zero or negative)
\* the configured default, clamped to at least 1.
C21_TopKOrDefault ==
    /\ OneSearch
    /\ \A i \in 1..Len(searches) :
          searches[i].top_k =
              IF retrieve_args.top_k # None /\ retrieve_args.top_k[1] >= 1
              THEN retrieve_args.top_k[1]
              ELSE Max(_settings.retrieval_top_k_default, 1)

\* C21: retrieve searches once, and the top_k it passes is the explicit top_k
\* when that is at least 1, the configured default clamped to at least 1 when
\* top_k is absent or zero, and 1 when top_k is negative.
C21_TopKResolved ==
    /\ OneSearch
    /\ \A i \in 1..Len(searches) :
          searches[i].top_k =
              IF retrieve_args.top_k = None \/ retrieve_args.top_k[1] = 0
              THEN Max(_settings.retrieval_top_k_default, 1)
              ELSE IF retrieve_args.top_k[1] >= 1 THEN retrieve_args.top_k[1]
              ELSE 1

\* a negative top_k with a default of TopKDefault was searched with top_k 1
C21_Witness ==
    /\ rpc = "done"
    /\ retrieve_args.top_k = Some(-1)
    /\ _settings.retrieval_top_k_default = TopKDefault
    /\ Len(searches) = 1
    /\ searches[1].top_k = 1

\* the raw scores of the results, each clipped to the ceiling
ClippedScores ==
    [i \in 1..Len(results) |->
        Min(results[i].score, _settings.retrieval_score_ceiling)]

\* the results have been normalized
Ranked == rpc = "done" /\ results # <<>>

\* the normalized scores lie in [0, 1], and a higher raw score never has a
\* lower normalized score
UnitAndMonotone ==
    /\ Len(normalized_scores) = Len(results)
    /\ \A i \in 1..Len(results) :
          /\ normalized_scores[i][2] > 0
          /\ 0 <= normalized_scores[i][1]
          /\ normalized_scores[i][1] <= normalized_scores[i][2]
    /\ \A i, j \in 1..Len(results) :
          results[i].score >= results[j].score
              => ~FracLess(normalized_scores[i], normalized_scores[j])

\* C22 as stated: the normalized scores lie in [0, 1], are monotone in the
\* raw scores, and are the min-max scaling of the clipped scores, all of them
\* 1.0 when the clipped scores are equal.
C22_MinMaxScaling ==
    Ranked =>
        LET lo == SeqMin(ClippedScores)
            hi == SeqMax(ClippedScores)
        IN  /\ UnitAndMonotone
            /\ \A i \in 1..Len(results) :
                  normalized_scores[i] =
                      IF hi = lo THEN <<1, 1>>
                      ELSE <<ClippedScores[i] - lo, hi - lo>>

\* C22: the normalized scores lie in [0, 1] and are monotone in the raw
\* scores; they are all 1.0 when the largest clipped score is within
\* 1e-8 + 1e-5 * |smallest| of the smallest, and the min-max scaling of the
\* clipped scores otherwise.
C22_MinMaxUnlessClose ==
    Ranked =>
        LET lo == SeqMin(ClippedScores)
            hi == SeqMax(ClippedScores)
        IN  /\ UnitAndMonotone
            /\ \A i \in 1..Len(results) :
                  normalized_scores[i] =
                      IF 100000 * Min(hi - lo, 100) <= 1000 + Abs(lo) THEN <<1, 1>>
                      ELSE <<ClippedScores[i] - lo, hi - lo>>

\* two scores a millionth apart were both normalized to 1.0
C22_Witness ==
    /\ Ranked
    /\ Len(results) = 2
    /\ results[1].score = 500000
    /\ results[2].score = 500001
    /\ normalized_scores = <<(<<1, 1>>), (<<1, 1>>)>>

\* the position at which the vector store returned the hit of a chunk: the
\* store's answer numbers its records 1, 2, ... in its own order
StoreRank(chunk) == chunk.chunk_id

\* C23: the chunks retrieve returns are in descending order of normalized
\* score, and chunks with equal normalized score are in the order in which the
\* vector store returned them.
C23_StableDescending ==
    (rpc = "done" /\ retrieved # None) =>
        LET chunks == retrieved[1].chunks
        IN  \A i, j \in 1..Len(chunks) :
               i < j =>
                  /\ ~FracLess(chunks[i].normalized_score, chunks[j].normalized_score)
                  /\ ~FracLess(chunks[j].normalized_score, chunks[i].normalized_score)
                        => StoreRank(chunks[i]) < StoreRank(chunks[j])

\* three chunks came back, the store's first hit last and the two that tie for
\* the best score in the store's order
C23_Witness ==
    /\ rpc = "done"
    /\ retrieved # None
    /\ Len(retrieved[1].chunks) = 3
    /\ results[1].score < results[2].score
    /\ results[2].score = results[3].score
    /\ [i \in 1..3 |-> retrieved[1].chunks[i].chunk_id] = <<2, 3, 1>>

\* the hits whose normalized score is at or above the configured floor
AtOrAboveFloor ==
    {i \in 1..Len(results) :
        ~FracLess(normalized_scores[i], _settings.retrieval_score_floor)}

\* C24: retrieve returns exactly the hits whose normalized score is at or
\* above the configured floor; with diagnostics enabled kept plus
\* dropped_below_floor is raw_results whenever there was a raw result; a single
\* hit with floor 1.05 gives no chunk and dropped_below_floor 1.
C24_FloorFilter ==
    Ranked =>
        LET chunks == retrieved[1].chunks
            diagnostics == retrieved[1].diagnostics
        IN  /\ Len(chunks) = Cardinality(AtOrAboveFloor)
            /\ {chunks[k].chunk_id : k \in 1..Len(chunks)}
                  = {results[i].id : i \in AtOrAboveFloor}
            /\ _settings.retrieval_diagnostics =>
                  /\ diagnostics.raw_results = Len(results)
                  /\ diagnostics.kept = Len(chunks)
                  /\ diagnostics.kept + diagnostics.dropped_below_floor
                        = diagnostics.raw_results
            /\ (Len(results) = 1 /\ _settings.retrieval_score_floor = <<21, 20>>) =>
                  /\ chunks = <<>>
                  /\ _settings.retrieval_diagnostics
                        => diagnostics.dropped_below_floor = 1

\* with floor 1.05 and diagnostics enabled a single hit was dropped
C24_Witness ==
    /\ Ranked
    /\ Len(results) = 1
    /\ _settings.retrieval_score_floor = <<21, 20>>
    /\ _settings.retrieval_diagnostics
    /\ retrieved[1].chunks = <<>>
    /\ retrieved[1].diagnostics.dropped_below_floor = 1

\* the fields the caller of retrieve has set: not None, not [] and not ""
FieldsSet ==
    IF retrieve_args.filters = None THEN {}
    ELSE LET filters == retrieve_args.filters[1]
         IN  {field \in {"source_type", "tags"} :
                 filters[field] # None /\ filters[field] # Some(<<>>)}
             \cup {field \in {"visibility_scope"} :
                 filters[field] # None /\ filters[field] # Some("")}

\* C25: when the filters are absent or none of their fields is set, the search
\* is issued with no filters and applied_filters of the response is null;
\* otherwise the search receives exactly the fields that are set.
C25_FilterNormalization ==
    /\ \A i \in 1..Len(searches) :
          IF FieldsSet = {} THEN searches[i].filters = None
          ELSE /\ searches[i].filters # None
               /\ DOMAIN searches[i].filters[1] = FieldsSet
               /\ \A field \in FieldsSet :
                     searches[i].filters[1][field] = retrieve_args.filters[1][field][1]
    /\ retrieved # None =>
          IF FieldsSet = {} THEN retrieved[1].applied_filters = None
          ELSE retrieved[1].applied_filters = retrieve_args.filters

\* filters with an empty source_type list, no tags and an empty visibility
\* scope were searched without filters
C25_Witness ==
    /\ rpc = "done"
    /\ Len(searches) = 1
    /\ retrieve_args.filters # None
    /\ FieldsSet = {}
    /\ searches[1].filters = None
    /\ retrieved[1].applied_filters = None

\* C26: when the embedding client produced no embedding for the query, whether
\* it returned no vector or raised, retrieve returns a response without chunks
\* instead of raising, and searches nothing.
C26_NoEmbeddingIsEmpty ==
    (rpc \in {"done", "raised"} /\ ~QueryEmbedded) =>
        /\ retrieve_exc = "none"
        /\ retrieved # None
        /\ retrieved[1].chunks = <<>>
        /\ searches = <<>>

\* ------------------------------------------------------------ FunctionSpec
\* chunk_text has returned
Chunked == fcall.fn = "chunk_text" /\ freturn.returned

\* C27: for a text of n >= 1 tokens and chunk_overlap < chunk_size, chunk_text
\* gives the windows that start at the offsets 0, step, 2 * step, ... below n
\* (step = max(1, chunk_size - chunk_overlap)), each of 1 to chunk_size tokens,
\* with the indices 0..k-1 and the hash of its text, and every token position
\* lies in a window; an empty text gives no chunk.
C27_Windows ==
    Chunked =>
        LET n == Len(fcall.tokens)
            step == Max(1, fcall.chunk_size - fcall.chunk_overlap)
            chunks == freturn.chunks
            offset(i) == (i - 1) * step
        IN  /\ n = 0 => chunks = <<>>
            /\ (n >= 1 /\ fcall.chunk_overlap < fcall.chunk_size) =>
                  /\ Len(chunks) = Cardinality({k \in 0..(n - 1) : k * step < n})
                  /\ \A i \in 1..Len(chunks) :
                        /\ chunks[i].index = i - 1
                        /\ chunks[i].token_count \in 1..fcall.chunk_size
                        /\ chunks[i].token_count = Len(chunks[i].text)
                        /\ chunks[i].text =
                              SubSeq(fcall.tokens, offset(i) + 1,
                                     Min(n, offset(i) + fcall.chunk_size))
                        /\ chunks[i].sha256 = sha256_digest(chunks[i].text)
                  /\ \A p \in 1..n :
                        \E i \in 1..Len(chunks) :
                            /\ offset(i) < p
                            /\ p <= offset(i) + chunks[i].token_count

\* four tokens with chunk_size 3 and chunk_overlap 1 gave the windows at the
\* offsets 0 and 2, of 3 and 2 tokens
C27_Witness ==
    /\ Chunked
    /\ Len(fcall.tokens) = 4
    /\ fcall.chunk_size = 3
    /\ fcall.chunk_overlap = 1
    /\ Len(freturn.chunks) = 2
    /\ freturn.chunks[2].index = 1
    /\ freturn.chunks[2].token_count = 2

\* is_duplicate_embedding has returned
Compared == fcall.fn = "is_duplicate_embedding" /\ freturn.returned

ZeroNorm(vec) == \A i \in 1..Len(vec) : vec[i] = 0

\* C28: is_duplicate_embedding is true when the candidate is one of the stored
\* vectors and false when it is orthogonal to all of them; a vector of norm
\* zero, stored or candidate, has similarity 0 and makes no duplicate.
C28_IdenticalOrthogonalZero ==
    Compared =>
        LET existing == fcall.existing_embeddings
            candidate == fcall.candidate
        IN  /\ (candidate \in existing /\ ~ZeroNorm(candidate)) => freturn.duplicate
            /\ (\A e \in existing : Dot(e, candidate) = 0) => ~freturn.duplicate
            /\ ZeroNorm(candidate) => ~freturn.duplicate
            /\ (\A e \in existing : ZeroNorm(e)) => ~freturn.duplicate

\* a candidate equal to one of two stored vectors, the other of norm zero, was
\* found a duplicate
C28_Witness ==
    /\ Compared
    /\ fcall.candidate = <<1, 2>>
    /\ fcall.existing_embeddings = {<<0, 0>>, <<1, 2>>}
    /\ freturn.duplicate

\* -------------------------------------------------------------------- Spec
ExcerptLimit == 500

\* C29: every vector record ingestion has upserted has its chunk's content
\* hash as id, and metadata with tenant id, document id, chunk order, content
\* hash, a chunk id and a content excerpt of at most 500 characters.
C29_VectorMetadata ==
    \A t \in Tenants :
        \A v \in vectors[t] :
            /\ v.id = v.metadata.sha256
            /\ v.metadata.tenant_id = t
            /\ {"tenant_id", "document_id", "chunk_order", "sha256", "chunk_id",
                "content"} \subseteq DOMAIN v.metadata
            /\ Len(v.metadata.content) <= ExcerptLimit

\* the events of run r that are committed
Committed(r) == SubSeq(events[r], 1, durable[r])

TerminalEvents == {"run_completed", "run_failed"}

CompletedNow(r) ==
    {j \in (Len(events[r]) + 1)..Len(events'[r]) :
        events'[r][j].type = "document_completed"}

\* the DocumentChunk rows of a document, and the vector records of a
\* collection that carry the document's id
RowsOf(rows, id) == {c \in rows : c.document_id = id}
VectorsOf(store, id) == {v \in store : v.metadata.document_id = id}

\* C31: a step counts a document as processed (either counter) or records
\* document_completed only when every chunk of the document went through the
\* chunk loop and no batch is left, its staged rows are persisted and it is
\* committed ready; the step upserts every staged vector, counts once, and
\* records one document_completed whose chunk count is the number of the
\* document's DocumentChunk rows and of the vector records upserted for it.
C31_CompletionStep(r) ==
    (\/ CompletedNow(r) # {}
     \/ run'[r].processed_documents # run[r].processed_documents
     \/ result'[r].processed_documents # result[r].processed_documents)
        => LET w == work[r]
               t == args[r].tenant_id
           IN  /\ pc[r] = "upsert"
               /\ w.ci > Len(w.chunks)
               /\ w.batch = <<>>
               /\ \E d \in docs : d.id = w.doc /\ d.status = "ready" /\ d.dstatus = "ready"
               /\ RowsOf(chunkRows, w.doc) = SeqToSet(w.models)
               /\ chunkRows' = chunkRows
               /\ SeqToSet(w.payloads) \subseteq vectors'[t]
               /\ run'[r].processed_documents = run[r].processed_documents + 1
               /\ result'[r].processed_documents = result[r].processed_documents + 1
               /\ Cardinality(CompletedNow(r)) = 1
               /\ \A j \in CompletedNow(r) :
                     /\ events'[r][j].file = idx[r]
                     /\ events'[r][j].n = Cardinality(RowsOf(chunkRows', w.doc))
                     /\ events'[r][j].n = Cardinality(VectorsOf(vectors'[t], w.doc))
                     /\ events'[r][j].n = Len(w.payloads)

C31_CompletedAfterUpsert == [][\A r \in Runs : C31_CompletionStep(r)]_vars

\* a document was completed with two chunks, two rows and two vectors
C31_Witness ==
    \E r \in Runs :
        \E j \in 1..Len(events[r]) :
            /\ events[r][j].type = "document_completed"
            /\ events[r][j].n = 2
            /\ Cardinality(RowsOf(chunkRows, <<r, events[r][j].file>>)) = 2
            /\ Cardinality(VectorsOf(vectors[args[r].tenant_id], <<r, events[r][j].file>>)) = 2

\* ---------------------------------------------------------- DocumentSpec
\* the chunks of a document that survive the intra-document dedup, in chunk
\* order: those whose hash no earlier chunk of the document has
FirstOccurrences(chunks) ==
    {i \in 1..Len(chunks) : \A j \in 1..(i - 1) : chunks[j].sha256 # chunks[i].sha256}

Survivors(chunks) ==
    LET first == FirstOccurrences(chunks)
    IN  [k \in 1..Cardinality(first) |->
            chunks[CHOOSE i \in first : Cardinality({j \in first : j < i}) = k - 1]]

\* the number of the current document's chunks that have been embedded
Embedded(w) == Cardinality(w.seen) - Len(w.batch)

Ceil(n, b) == (n + b - 1) \div b

RECURSIVE SumOver(_, _)
SumOver(S, f) ==
    IF S = {} THEN 0
    ELSE LET x == CHOOSE y \in S : TRUE IN f[x] + SumOver(S \ {x}, f)

\* the files before the current one for which run r created a Document
Started(r) ==
    {i \in 1..(idx[r] - 1) :
        \E j \in FileEvents(r, i) : events[r][j].type = "document_started"}

\* C32: every embed call of a document takes the next 1..batch_size surviving
\* chunks in chunk order, a full batch unless they are the document's last,
\* and nothing is embedded otherwise, so each surviving chunk is embedded once;
\* when the chunk loop has ended all n surviving chunks are embedded, and a
\* run without failures has made ceil(n / b) embed calls for each document it
\* went through (none for a document without chunks).
C32_EmbedStep(r) ==
    LET w == work[r]
        b == args[r].batch_size
        sv == Survivors(w.chunks)
    IN  /\ calls'[r].embed # calls[r].embed
            => /\ calls'[r].embed = calls[r].embed + 1
               /\ pc[r] = "batch"
               /\ Len(w.batch) \in 1..b
               /\ Embedded(w) % b = 0
               /\ w.batch = SubSeq(sv, Embedded(w) + 1, Embedded(w) + Len(w.batch))
               /\ Len(w.batch) = b \/ Embedded(w) + Len(w.batch) = Len(sv)
               /\ work'[r].doc = w.doc => Embedded(work'[r]) = Embedded(w) + Len(w.batch)
        /\ (calls'[r].embed = calls[r].embed /\ work'[r].doc = w.doc /\ w.doc # NoDoc)
            => Embedded(work'[r]) = Embedded(w)

C32_Count(r) ==
    LET w == work[r]
        b == args[r].batch_size
        n == [i \in 1..Len(files) |->
                 Len(Survivors(chunk_text(files[i].bytes, ChunkSize, ChunkOverlap)))]
    IN  /\ pc[r] \in {"persist", "upsert"}
            => /\ w.batch = <<>>
               /\ Embedded(w) = Len(Survivors(w.chunks))
               /\ w.chunks = chunk_text(files[idx[r]].bytes, ChunkSize, ChunkOverlap)
        /\ (run[r].started /\ ErrorReasons(r) = {})
            => calls[r].embed =
                  SumOver(Started(r), [i \in 1..Len(files) |-> Ceil(n[i], b)])
                  + (IF w.doc # NoDoc THEN Ceil(Embedded(w), b) ELSE 0)

C32_BatchedEmbedding ==
    /\ [][\A r \in Runs : C32_EmbedStep(r)]_vars
    /\ [](\A r \in Runs : C32_Count(r))

\* batch_size 2: no call for the empty file, two calls for the file of three
\* distinct chunks
C32_Witness ==
    \E r \in Runs :
        /\ pc[r] = "done"
        /\ args[r].batch_size = 2
        /\ files[1] = TextFile(<<>>)
        /\ files[2] = TextFile(<<1, 1, 1, 2, 2>>)
        /\ result[r].processed_documents = 2
        /\ calls[r].embed = 2

\* the chunk_skipped_duplicate events a step of run r records
DupEventsNow(r) ==
    {j \in (Len(events[r]) + 1)..Len(events'[r]) :
        events'[r][j].type = "chunk_skipped_duplicate"}

\* the entries of a sequence of records differ pairwise in field f
Distinct(s, f) == \A i, j \in 1..Len(s) : i # j => s[i][f] # s[j][f]

\* C33: a step that takes the chunk loop of a document further records one
\* chunk_skipped_duplicate event, and adds one to skipped_chunks, for each
\* chunk gone through whose hash an earlier chunk of the document has (the
\* rest of what it adds to skipped_chunks are the batch's chunks the store
\* found similar), and such events are recorded by no other step; no such
\* chunk is in a batch to embed or among the staged vectors and rows, and the
\* staged vectors and rows, the DocumentChunk rows and the stored vectors of
\* one document differ pairwise in content hash and in chunk order.
C33_SkipStep(r) ==
    LET w == work[r]
        w2 == work'[r]
        from == IF pc[r] = "insert" THEN 1 ELSE w.ci
        repeats == {i \in from..(w2.ci - 1) : i \notin FirstOccurrences(w2.chunks)}
        similar == IF pc[r] = "batch"
                   THEN Len(w.batch) - (Len(w2.payloads) - Len(w.payloads))
                   ELSE 0
    IN  /\ DupEventsNow(r) # {}
            => w2.doc # NoDoc /\ (pc[r] = "insert" \/ w2.doc = w.doc)
        /\ (w2.doc # NoDoc /\ (pc[r] = "insert" \/ w2.doc = w.doc))
            => /\ Cardinality(DupEventsNow(r)) = Cardinality(repeats)
               /\ {events'[r][j].n : j \in DupEventsNow(r)}
                     = {w2.chunks[i].index : i \in repeats}
               /\ \A j \in DupEventsNow(r) :
                     events'[r][j].file = idx[r] /\ events'[r][j].reason = "hash_duplicate"
               /\ result'[r].skipped_chunks =
                     result[r].skipped_chunks + Cardinality(repeats) + similar

C33_Staged(r) ==
    LET w == work[r]
        first == FirstOccurrences(w.chunks)
        order == [c \in chunkRows |-> <<c.document_id, c.chunk_order>>]
        hash == [c \in chunkRows |-> <<c.document_id, c.sha256>>]
    IN  /\ \A i \in 1..Len(w.batch) : w.batch[i].index + 1 \in first
        /\ \A i \in 1..Len(w.payloads) : w.payloads[i].metadata.chunk_order + 1 \in first
        /\ \A i \in 1..Len(w.models) : w.models[i].chunk_order + 1 \in first
        /\ Distinct(w.batch, "sha256")
        /\ Distinct(w.payloads, "id")
        /\ Distinct([i \in 1..Len(w.payloads) |-> w.payloads[i].metadata], "chunk_order")
        /\ Distinct(w.models, "sha256")
        /\ Distinct(w.models, "chunk_order")
        /\ \A c, d \in chunkRows : c # d => order[c] # order[d] /\ hash[c] # hash[d]
        /\ \A t \in Tenants : \A u, v \in vectors[t] :
              (u # v /\ u.metadata.document_id = v.metadata.document_id)
                  => /\ u.metadata.sha256 # v.metadata.sha256
                     /\ u.metadata.chunk_order # v.metadata.chunk_order

C33_IntraDocumentDedup ==
    /\ [][\A r \in Runs : C33_SkipStep(r)]_vars
    /\ [](\A r \in Runs : C33_Staged(r))

\* a file whose second chunk repeats its first was indexed with two rows, two
\* vectors, one skipped chunk and one chunk_skipped_duplicate event
C33_Witness ==
    \E r \in Runs :
        /\ pc[r] = "done"
        /\ files[1] = TextFile(<<1, 2, 1, 2, 1>>)
        /\ Cardinality(RowsOf(chunkRows, <<r, 1>>)) = 2
        /\ Cardinality(VectorsOf(vectors[args[r].tenant_id], <<r, 1>>)) = 2
        /\ result[r].skipped_chunks >= 1
        /\ Cardinality({j \in FileEvents(r, 1) :
                           events[r][j].type = "chunk_skipped_duplicate"}) = 1

\* ---------------------------------------------------------------- Spec
\* the files for which run r has recorded an event of the given type
FilesWith(r, type) ==
    {i \in 1..Len(files) : \E j \in FileEvents(r, i) : events[r][j].type = type}

\* C34: once the files are enumerated total_documents is their number (0
\* before), in the run object and in the committed row; processed_documents of
\* the run never decreases and never exceeds total_documents; and in a
\* completed run every file has exactly one of the outcomes processed, skipped
\* and failed, the result's three counters count the files of each outcome,
\* and their sum is total_documents.
C34_Counters(r) ==
    LET processed == FilesWith(r, "document_completed")
        skipped == FilesWith(r, "document_skipped")
        failed == FilesWith(r, "error")
    IN  /\ run[r].total_documents = (IF run[r].started THEN Len(files) ELSE 0)
        /\ dbRun[r].total_documents = run[r].total_documents
        /\ run[r].processed_documents \in 0..run[r].total_documents
        /\ dbRun[r].processed_documents \in 0..dbRun[r].total_documents
        /\ run[r].status = "completed"
            => /\ processed \cup skipped \cup failed = 1..Len(files)
               /\ processed \cap skipped = {}
               /\ processed \cap failed = {}
               /\ skipped \cap failed = {}
               /\ result[r].processed_documents = Cardinality(processed)
               /\ result[r].skipped_documents = Cardinality(skipped)
               /\ result[r].failed_documents = Cardinality(failed)
               /\ run[r].processed_documents = result[r].processed_documents
               /\ result[r].processed_documents + result[r].skipped_documents
                      + result[r].failed_documents = run[r].total_documents

C34_Monotone(r) ==
    /\ run'[r].processed_documents >= run[r].processed_documents
    /\ dbRun'[r].processed_documents >= dbRun[r].processed_documents

C34_DocumentCounters ==
    /\ [](\A r \in Runs : C34_Counters(r))
    /\ [][\A r \in Runs : C34_Monotone(r)]_vars

\* a completed run over two files: one processed, one failed; the other run
\* over the same files skipped one
C34_Witness ==
    \E r, q \in Runs :
        /\ run[r].status = "completed"
        /\ run[r].total_documents = 2
        /\ run[r].processed_documents = 1
        /\ result[r].failed_documents = 1
        /\ run[q].status = "completed"
        /\ result[q].skipped_documents >= 1

\* C35: once _process_file has left a document (the window between the commit
\* of ready and the upsert of the same call is not counted), a Document that
\* is committed ready has a vector record in its tenant's collection for each
\* of its DocumentChunk rows.
C35_ReadyHasVectors ==
    \A d \in docs :
        (d.dstatus = "ready" /\ work[d.owner].doc # d.id)
            => \A c \in RowsOf(chunkRows, d.id) :
                  \E v \in vectors[d.tenant_id] : v.id = c.sha256

\* C36: a step records document_skipped with reason duplicate for a file only
\* when a Document with the file's content hash and the run's tenant is ready.
C36_SkipStep(r) ==
    (\E j \in (Len(events[r]) + 1)..Len(events'[r]) : events'[r][j].reason = "duplicate")
        => \E d \in docs :
              /\ d.tenant_id = args[r].tenant_id
              /\ d.sha256 = sha256_digest(files[idx[r]].bytes)
              /\ (d.status = "ready" \/ d.dstatus = "ready")

C36_DuplicateMeansIndexed == [][\A r \in Runs : C36_SkipStep(r)]_vars

\* ---------------------------------------------------------- DocumentSpec
\* two distinct vector records of one collection whose embeddings are at or
\* above the duplicate threshold
SimilarPairs(store) ==
    {<<u, v>> \in store \X store : u # v /\ CosineAtLeast(u.embedding, v.embedding)}

\* C37 as claimed: when no run is under way, no collection holds two vector
\* records whose embeddings are at or above the duplicate threshold.
C37_NoSimilarStored ==
    (\A r \in Runs : pc[r] \in {"new", "done"})
        => \A t \in Tenants : SimilarPairs(vectors[t]) = {}

\* C37: with the documents ingested one after another, a staged vector is
\* below the duplicate threshold against every vector already in the tenant's
\* collection, so two vector records of a collection whose embeddings are at
\* or above the threshold belong to one document.
C37_NoSimilarAcrossDocuments ==
    /\ \A r \in Runs : \A i \in 1..Len(work[r].payloads) :
          ~has_similar_embedding(args[r].tenant_id, work[r].payloads[i].embedding)
    /\ \A t \in Tenants : \A p \in SimilarPairs(vectors[t]) :
          p[1].metadata.document_id = p[2].metadata.document_id

\* the first document's two chunks, different in content and equal in
\* embedding, are both stored, and two chunks of the second document were
\* dropped as similar to them
C37_Witness ==
    \E r \in Runs :
        /\ pc[r] = "done"
        /\ files[1] = TextFile(<<1, 2, 2, 1>>)
        /\ files[2] = TextFile(<<1, 1, 1, 2, 2>>)
        /\ Cardinality(VectorsOf(vectors[args[r].tenant_id], <<r, 1>>)) = 2
        /\ SimilarPairs(VectorsOf(vectors[args[r].tenant_id], <<r, 1>>)) # {}
        /\ Cardinality(VectorsOf(vectors[args[r].tenant_id], <<r, 2>>)) = 1
        /\ result[r].skipped_chunks = 2

\* ------------------------------------------------------------ FunctionSpec
\* C38: for chunk_overlap < chunk_size, every chunk after the first reaches
\* beyond the last token position of the chunk before it (the chunk of index
\* k starts at the offset k * step).
C38_EveryChunkAdvances ==
    (Chunked /\ fcall.chunk_overlap < fcall.chunk_size) =>
        LET step == Max(1, fcall.chunk_size - fcall.chunk_overlap)
            chunks == freturn.chunks
            end(i) == chunks[i].index * step + chunks[i].token_count
        IN  \A i \in 2..Len(chunks) : end(i) > end(i - 1)

\* ------------------------------------------------------------ RetrieveSpec
\* retrieve keeps a hit of this raw score when the search returns it alone
KeptAlone(score) ==
    ~BelowFloor(_normalize_scores(<<score>>, _settings.retrieval_score_ceiling)[1],
                _settings.retrieval_score_floor)

\* C39: a hit that retrieve keeps when the search returns it alone is among
\* the chunks returned whatever other hits the search returned with it.
C39_KeptWhateverTheOthers ==
    Ranked =>
        \A i \in 1..Len(results) :
            KeptAlone(results[i].score)
                => \E k \in 1..Len(retrieved[1].chunks) :
                      retrieved[1].chunks[k].chunk_id = results[i].id

\* ---------------------------------------------------------------- Spec
\* the files run r completed
CompletedFiles(r) == FilesWith(r, "document_completed")

\* the Document of file i of run r is committed ready, in the given tables,
\* with a vector record for each of its DocumentChunk rows
Indexed(ds, rows, store, r, i) ==
    /\ \E d \in ds : d.id = <<r, i>> /\ d.status = "ready" /\ d.dstatus = "ready"
    /\ \A c \in RowsOf(rows, <<r, i>>) :
          \E v \in store[args[r].tenant_id] : v.id = c.sha256

\* C40: the step in which a run is aborted while it works on file i changes
\* no DocumentChunk row and no vector record, removes or changes no committed
\* Document, keeps the committed events and the committed processed count,
\* and leaves every file the run completed before indexed; an aborted run has
\* no event, Document or chunk row for a file after i, and makes no further
\* call, event or change to its counters.
C40_AbortStep(r) ==
    (pc[r] \in {"check", "insert", "batch", "persist", "upsert"} /\ pc'[r] = "raised")
        => /\ chunkRows' = chunkRows
           /\ vectors' = vectors
           /\ \A d \in docs : d.dstatus # "none" => d \in docs'
           /\ SubSeq(events'[r], 1, durable[r]) = Committed(r)
           /\ durable'[r] >= durable[r]
           /\ dbRun'[r].processed_documents = dbRun[r].processed_documents
           /\ idx'[r] = idx[r]
           /\ CompletedFiles(r) \subseteq 1..(idx[r] - 1)
           /\ \A i \in CompletedFiles(r) :
                 /\ Indexed(docs, chunkRows, vectors, r, i)
                 /\ Indexed(docs', chunkRows', vectors', r, i)

C40_AfterAbort(r) ==
    (pc[r] = "raised" /\ run[r].started)
        => /\ \A i \in (idx[r] + 1)..Len(files) :
                 /\ FileEvents(r, i) = {}
                 /\ \A d \in docs : d.id # <<r, i>>
                 /\ RowsOf(chunkRows, <<r, i>>) = {}
           /\ \A i \in CompletedFiles(r) : Indexed(docs, chunkRows, vectors, r, i)

C40_Stopped(r) ==
    pc[r] = "raised"
        => /\ pc'[r] = "raised"
           /\ calls'[r] = calls[r]
           /\ events'[r] = events[r]
           /\ idx'[r] = idx[r]
           /\ result'[r] = result[r]
           /\ run'[r] = run[r]
           /\ \A d \in docs : d.owner = r => d \in docs'

C40_AbortKeepsEarlierFiles ==
    /\ [][\A r \in Runs : C40_AbortStep(r) /\ C40_Stopped(r)]_vars
    /\ [](\A r \in Runs : C40_AfterAbort(r))

\* a run was aborted by an embedding error on its second file, and its first
\* file is indexed with two chunk rows and their vectors
C40_Witness ==
    \E r \in Runs :
        /\ pc[r] = "raised"
        /\ raised[r] \in EmbeddingErrors
        /\ idx[r] = 2
        /\ CompletedFiles(r) = {1}
        /\ Cardinality(RowsOf(chunkRows, <<r, 1>>)) = 2
        /\ Indexed(docs, chunkRows, vectors, r, 1)
        /\ dbRun[r].status = "failed"
        /\ dbRun[r].processed_documents = 1

====
